---- MODULE Spec2Model ----
(***************************************************************************)
(* Model of the adaptive multi-backend article-processing pipeline of the  *)
(* tech-news agent (src/processors/adaptive_processor.py and the four      *)
(* backends it drives).                                                    *)
(*                                                                         *)
(* Representation.                                                         *)
(*  - An Article object is an identity (a number) whose fields live in     *)
(*    `store`; lists of articles are sequences of identities, so "same     *)
(*    object" is equality of identities.                                   *)
(*  - A string is represented by what the code can observe of it: a text   *)
(*    is a record [kind, len] where kind names the literal form the code   *)
(*    built ("TitleFromSource" is f"{title} - From {source_name}") and     *)
(*    len is its length in characters.                                    *)
(*  - A score is an integer number of hundredths (70 is 0.7); an Optional  *)
(*    field holds None or Some(score).                                     *)
(*  - Replies of the model services, faults and timeouts are inputs drawn  *)
(*    with \E in the action of the tier that makes the call.               *)
(***************************************************************************)
EXTENDS Integers, Sequences, FiniteSets, TLC

\* ------------------------------------------------------------------ bounds
\* Largest input batch explored.
MaxBatch == 2

\* ---------------------------------------------------------------- constants
\* An Optional value: None, or Some(v) whose value is Val(x).
None == << >>
Some(v) == <<v>>
Val(x) == x[1]

\* importance_score = 0.7 assigned by the adaptive processor
DefaultScore == 70
\* importance_score = 0.6 of the terminal fallback
BasicScore == 60
\* importance_score = 0.5 used inside a backend for one failed article
MidScore == 50
\* summaries are cut at 250 characters
SummaryLimit == 250

Min(a, b) == IF a <= b THEN a ELSE b
Max(a, b) == IF a >= b THEN a ELSE b

\* Variant: the lower bound only.
ClampLowerOnly(x) == Max(0, x)

\* max(0.0, min(1.0, x)) in hundredths
Clamp(x) == Max(0, Min(100, x))

\* ------------------------------------------------------------------- texts
EmptyText == [kind |-> "Empty", len |-> 0]

\* f"{article.title} - From {article.source_name}"
TitleFromSource(a) == [kind |-> "TitleFromSource", len |-> a.title_len + 8 + a.source_len]

\* summary[:247] + "..." when len(summary) > 250
Truncate(t) ==
    IF t.len > SummaryLimit THEN [kind |-> t.kind, len |-> 247 + 3] ELSE t

\* --------------------------------------------------------------- articles
\* Keyword counts of an article as the heuristic scorer sees them.
PlainFeat == [technical_count |-> 0, high_value_count |-> 0, jvm_source |-> FALSE,
              title_topic |-> FALSE, super_boost |-> FALSE, generic_count |-> 0]

GenericFeat == [technical_count |-> 0, high_value_count |-> 0, jvm_source |-> FALSE,
                title_topic |-> FALSE, super_boost |-> FALSE, generic_count |-> 2]

RichFeat == [technical_count |-> 12, high_value_count |-> 11, jvm_source |-> TRUE,
             title_topic |-> TRUE, super_boost |-> TRUE, generic_count |-> 0]

\* Article(title=..., source_name=..., content=...): summary "" and
\* importance_score None are the declared defaults.
Article(tl, sl, cl, f) ==
    [title_len |-> tl, source_len |-> sl, content_len |-> cl, feat |-> f,
     summary |-> EmptyText, importance_score |-> None]

\* The articles a fetcher can hand over: no content, a short description,
\* a long body.
ArticleKinds ==
    { Article(12, 6, 0, PlainFeat),
      Article(20, 9, 60, GenericFeat),
      Article(30, 10, 1200, RichFeat) }

\* Variant: the generic penalty takes the whole base score.
RateImportancePenaltyOfBase(f) ==
    Clamp(50 + Min(20, f.technical_count * 2)
             + Min(40, f.high_value_count * 4)
             + (IF f.jvm_source THEN 10 ELSE 0)
             + (IF f.title_topic THEN 10 ELSE 0)
             + (IF f.super_boost THEN 20 ELSE 0)
             - (IF f.generic_count >= 2 THEN 50 ELSE 0))

\* ------------------------------------------------- heuristic importance scorer
\* Variant: the penalty needs three generic terms.
RateImportancePenaltyAtThree(f) ==
    Clamp(50 + Min(20, f.technical_count * 2)
             + Min(40, f.high_value_count * 4)
             + (IF f.jvm_source THEN 10 ELSE 0)
             + (IF f.title_topic THEN 10 ELSE 0)
             + (IF f.super_boost THEN 20 ELSE 0)
             - (IF f.generic_count >= 3 THEN 20 ELSE 0))

\* SimpleSummarizer.rate_importance and LocalSummarizer._rate_importance:
\* 0.5 + min(0.2, 0.02 t) + min(0.4, 0.04 h) + source + title + boost - penalty,
\* clamped to [0, 1]; f holds the keyword counts of the article.
RateImportance(f) ==
    Clamp(50 + Min(20, f.technical_count * 2)
             + Min(40, f.high_value_count * 4)
             + (IF f.jvm_source THEN 10 ELSE 0)
             + (IF f.title_topic THEN 10 ELSE 0)
             + (IF f.super_boost THEN 20 ELSE 0)
             - (IF f.generic_count >= 2 THEN 20 ELSE 0))

\* A call that returned v / a call that raised.
Returned(v) == [raised |-> FALSE, value |-> v]
Raised == [raised |-> TRUE]

\* ---------------------------------------------------- Local-Host (Ollama) backend
\* One HTTP call to POST /api/generate: a timeout or any other
\* requests/HTTP/JSON error, or a reply whose stripped text has `len`
\* characters and, for the rating call, whose first numeric token is `number`
\* (None: no numeric token), in hundredths.
GenTimeout == [status |-> "timeout", len |-> 0]
GenReply(n) == [status |-> "ok", len |-> n]
RateTimeout == [status |-> "timeout", number |-> None]
RateReply(x) == [status |-> "ok", number |-> x]

\* The replies one article gets from the service in the Local-Host tier: to
\* its generate call and to its rating call.
OllamaOutcomes ==
    { [gen |-> GenTimeout, rate |-> RateReply(Some(45))],
      [gen |-> GenReply(100), rate |-> RateTimeout],
      [gen |-> GenReply(10), rate |-> RateReply(Some(0))],
      [gen |-> GenReply(400), rate |-> RateReply(Some(250))],
      [gen |-> GenReply(100), rate |-> RateReply(None)] }

\* Variant: a failed request is not caught and leaves _generate_summary.
OllamaGenerateSummaryUncaught(a, g) ==
    IF a.content_len = 0 THEN Raised
    ELSE IF g.status # "ok" THEN Raised
    ELSE IF g.len < 20 THEN Returned(TitleFromSource(a))
    ELSE Returned(Truncate([kind |-> "OllamaReply", len |-> g.len]))

\* OllamaProcessor._generate_summary.  The Article model declares no
\* `description` field, so `article.content or article.description` raises
\* AttributeError when content is "" (before the try block).
OllamaGenerateSummary(a, g) ==
    IF a.content_len = 0 THEN Raised
    ELSE IF g.status # "ok" THEN Returned(TitleFromSource(a))
    ELSE IF g.len < 20 THEN Returned(TitleFromSource(a))
    ELSE Returned(Truncate([kind |-> "OllamaReply", len |-> g.len]))

\* OllamaProcessor._rate_importance.
OllamaRateImportance(a, r) ==
    IF a.title_len = 0 THEN Returned(MidScore)
    ELSE IF a.content_len = 0 THEN Raised
    ELSE IF r.status # "ok" THEN Returned(MidScore)
    ELSE IF r.number = None THEN Returned(MidScore)
    ELSE Returned(Clamp(Val(r.number)))

\* Body of the loop of OllamaProcessor.process_articles for one article:
\* the try block, and the except block that fills what is still None.
OllamaProcessOne(a, o) ==
    LET s == OllamaGenerateSummary(a, o.gen)
        a1 == IF s.raised THEN a ELSE [a EXCEPT !.summary = s.value]
        r == IF s.raised THEN Raised ELSE OllamaRateImportance(a1, o.rate)
    IN  IF ~r.raised
        THEN [a1 EXCEPT !.importance_score = Some(r.value)]
        ELSE [a1 EXCEPT !.importance_score =
                 IF a1.importance_score = None THEN Some(MidScore)
                 ELSE a1.importance_score]

\* OllamaArticleProcessor.process_articles when processor.available is
\* False: the placeholder loop.
OllamaPlaceholderOne(a) ==
    [a EXCEPT !.summary = IF a.summary.len = 0 THEN TitleFromSource(a) ELSE a.summary,
              !.importance_score = IF a.importance_score = None THEN Some(MidScore)
                                   ELSE a.importance_score]

\* Whether the article's generate / rating HTTP call is made at all.
OllamaCallsGenerate(a) == a.content_len > 0
OllamaCallsRate(a) == a.content_len > 0 /\ a.title_len > 0
OllamaAsks(a) == OllamaCallsGenerate(a) \/ OllamaCallsRate(a)

\* ------------------------------------------------------------ Cloud backend
\* One chat-completion call: an API error, or a reply of `len` characters.
\* The rating reply: an API or parse error, or {"score": number}.
ApiError == [status |-> "error", len |-> 0, number |-> None]
ChatReply(n) == [status |-> "ok", len |-> n]
ScoreReply(x) == [status |-> "ok", number |-> x]

\* The replies one article gets from the Cloud service: to its summary
\* request and to its rating request.
CloudOutcomes ==
    { [gen |-> ApiError, rate |-> ScoreReply(85)],
      [gen |-> ChatReply(0), rate |-> ScoreReply(0 - 20)],
      [gen |-> ChatReply(100), rate |-> ApiError],
      [gen |-> ChatReply(400), rate |-> ScoreReply(150)] }

\* ArticleSummarizer._generate_summary: never raises; the reply is returned
\* stripped and otherwise as it came.
CloudGenerateSummary(a, g) ==
    IF a.content_len = 0 THEN [kind |-> "NoContentCloud", len |-> 34]
    ELSE IF g.status # "ok" THEN [kind |-> "FailedCloud", len |-> 27]
    ELSE [kind |-> "CloudReply", len |-> g.len]

\* ArticleSummarizer.summarize_articles, one article.
CloudSummarizeOne(a, o) == [a EXCEPT !.summary = CloudGenerateSummary(a, o.gen)]

\* The rating request is made for every article.
CloudAsks(a) == TRUE

\* Variant: a failed request is left to the handler of rate_articles, which
\* assigns 0.0.
CloudRateArticleUncaught(a, r) ==
    IF r.status # "ok" THEN 0 ELSE Clamp(r.number)

\* ImportanceRater._rate_article: never raises.
CloudRateArticle(a, r) ==
    IF r.status # "ok" THEN MidScore ELSE Clamp(r.number)

\* ImportanceRater.rate_articles, one article.
CloudRateOne(a, o) ==
    [a EXCEPT !.importance_score = Some(CloudRateArticle(a, o.rate))]

\* ------------------------------------------------- Local-Extractive backend
\* The sentence ranking of sumy: it raises, or its sentences joined have
\* `len` characters.
SumyOutcomes ==
    { [status |-> "error", len |-> 0],
      [status |-> "ok", len |-> 150],
      [status |-> "ok", len |-> 400] }

\* LocalSummarizer._generate_summary.
LocalGenerateSummary(a, o) ==
    IF a.content_len = 0 \/ a.content_len < 100
    THEN [kind |-> "TitleNoContent", len |-> a.title_len + 42]
    ELSE IF o.status # "ok"
    THEN [kind |-> "FailedLocal", len |-> 34 + a.title_len]
    ELSE Truncate([kind |-> "Extract", len |-> o.len])

\* Whether sumy is run on the article.
LocalAsks(a) == a.content_len >= 100

\* LocalSummarizer.summarize_articles, one article.
LocalSummarizeOne(a, o) == [a EXCEPT !.summary = LocalGenerateSummary(a, o)]

\* Variant: a score that is already there is kept.
LocalRateOneKeepsScore(a, o) ==
    IF a.importance_score # None THEN a
    ELSE [a EXCEPT !.importance_score = Some(RateImportance(a.feat))]

\* The rating loop of LocalArticleProcessor.process_articles, one article.
LocalRateOne(a, o) == [a EXCEPT !.importance_score = Some(RateImportance(a.feat))]

\* ----------------------------------------------------------- Simple backend
\* What the regex sentence splitter finds in the cleaned text: no sentence
\* longer than 20 characters, or sentences whose selection joined has `len`
\* characters.
SplitOutcomes ==
    { [sentences |-> 0, len |-> 0],
      [sentences |-> 2, len |-> 180],
      [sentences |-> 3, len |-> 600] }

\* SimpleSummarizer._generate_summary; the whole body is inside a try
\* whose except returns the title fallback (reached for content "" through
\* the AttributeError of article.description).
SimpleGenerateSummary(a, o) ==
    IF a.content_len = 0 THEN TitleFromSource(a)
    ELSE IF a.content_len < 50 THEN TitleFromSource(a)
    ELSE IF a.content_len <= SummaryLimit
    THEN [kind |-> "Content", len |-> a.content_len]
    ELSE IF o.sentences = 0
    THEN [kind |-> "ContentHead", len |-> SummaryLimit + 3]
    ELSE LET summary == Truncate([kind |-> "Sentences", len |-> o.len])
         IN  IF summary.len < 20 THEN TitleFromSource(a) ELSE summary

\* Whether the sentence splitter is run on the article.
SimpleAsks(a) == a.content_len > SummaryLimit

\* SimpleSummarizer.summarize_articles, one article.
SimpleSummarizeOne(a, o) == [a EXCEPT !.summary = SimpleGenerateSummary(a, o)]

\* The rating loop of SimpleArticleProcessor.process_articles, one article.
SimpleRateOne(a, o) == [a EXCEPT !.importance_score = Some(RateImportance(a.feat))]

\* ------------------------------------------- Local-Host availability probe
\* A model name "base:tag" is [base, tag]; tag "" is a name without a tag.
Llama3 == [base |-> "llama3", tag |-> ""]
Llama3_8b == [base |-> "llama3", tag |-> "8b"]
Mistral == [base |-> "mistral", tag |-> "7b"]

\* What GET /api/tags answers when the adaptive processor is built: a network
\* error or timeout, a status other than 200, or a list of installed models
\* (the probe is gone through case by case in ProbeSpec; the pipeline reads
\* the availability flag only).
ProbeReplies ==
    { [status |-> "error", models |-> << >>],
      [status |-> "non200", models |-> << >>],
      [status |-> "ok", models |-> << >>],
      [status |-> "ok", models |-> <<Mistral, Llama3_8b>>] }

\* Variant: no search for a model of the same family.
CheckAvailabilityNoFamily(model_name, probe) ==
    LET models == probe.models
    IN  IF probe.status # "ok"
        THEN [available |-> FALSE, model_name |-> model_name]
        ELSE IF \E j \in 1..Len(models) : models[j] = model_name
        THEN [available |-> TRUE, model_name |-> model_name]
        ELSE IF Len(models) > 0
        THEN [available |-> TRUE, model_name |-> models[1]]
        ELSE [available |-> FALSE, model_name |-> model_name]

\* OllamaProcessor._check_availability: the availability flag and the model
\* name the processor keeps.
CheckAvailability(model_name, probe) ==
    LET models == probe.models
        same == {j \in 1..Len(models) : models[j].base = model_name.base}
        first == CHOOSE j \in same : \A l \in same : j <= l
    IN  IF probe.status # "ok"
        THEN [available |-> FALSE, model_name |-> model_name]
        ELSE IF \E j \in 1..Len(models) : models[j] = model_name
        THEN [available |-> TRUE, model_name |-> model_name]
        ELSE IF same # {}
        THEN [available |-> TRUE, model_name |-> models[first]]
        ELSE IF Len(models) > 0
        THEN [available |-> TRUE, model_name |-> models[1]]
        ELSE [available |-> FALSE, model_name |-> model_name]

\* ------------------------------------------------------------------- state
VARIABLES
    ollama_processor,   \* None, or Some OllamaArticleProcessor: [available, model_name]
    openai_processor,   \* TRUE when summarizer and rater were constructed
    local_processor,    \* TRUE when the LocalArticleProcessor was constructed
    articles,           \* the argument of process_articles: a list of identities
    store,              \* the fields of every Article object
    result_articles,    \* local variable of process_articles
    failed_articles,    \* local variable of process_articles
    pc,                 \* position in process_articles
    returned,           \* None, or Some list that process_articles returned
    calls,              \* the backend calls made so far, with their outcome
    gen_timeouts,       \* articles whose Local-Host generate call failed
    rate_timeouts,      \* articles whose Local-Host rating call failed
    raw_scores,         \* the score of each article as its backend returned it
    op,                 \* None, or Some operation of a backend called on its own
    res                 \* None, or Some result of that operation

vars == <<ollama_processor, openai_processor, local_processor, articles, store,
          result_articles, failed_articles, pc, returned, calls,
          gen_timeouts, rate_timeouts, raw_scores, op, res>>

\* The state of AdaptiveArticleProcessor.process_articles; the state of a
\* backend operation called on its own.
pipeline_vars == <<ollama_processor, openai_processor, local_processor, articles,
                   store, result_articles, failed_articles, pc, returned, calls,
                   gen_timeouts, rate_timeouts, raw_scores>>
unit_vars == <<op, res>>

Ids(seq) == {seq[j] : j \in 1..Len(seq)}

\* AdaptiveArticleProcessor.__init__, then a call of process_articles on a
\* batch of fresh articles.  OllamaArticleProcessor's constructor does not
\* raise when the service is unreachable: it keeps available = False.
Init ==
    /\ \E use_ollama \in BOOLEAN, probe \in ProbeReplies :
          ollama_processor = IF use_ollama THEN Some(CheckAvailability(Llama3, probe))
                             ELSE None
    /\ openai_processor \in BOOLEAN
    /\ local_processor \in BOOLEAN
    /\ \E n \in 0..MaxBatch :
          /\ articles = [j \in 1..n |-> j]
          /\ store \in [1..n -> ArticleKinds]
          /\ raw_scores = [j \in 1..n |-> None]
    /\ result_articles = << >>
    /\ failed_articles = << >>
    /\ pc = "start"
    /\ returned = None
    /\ calls = << >>
    /\ gen_timeouts = {}
    /\ rate_timeouts = {}
    /\ op = None
    /\ res = None

\* ------------------------------------------------- running a backend call
\* The body of each backend loop, by name.
LoopBody(body, a, o) ==
    CASE body = "OllamaProcessOne" -> OllamaProcessOne(a, o)
      [] body = "OllamaPlaceholderOne" -> OllamaPlaceholderOne(a)
      [] body = "CloudSummarizeOne" -> CloudSummarizeOne(a, o)
      [] body = "CloudRateOne" -> CloudRateOne(a, o)
      [] body = "LocalSummarizeOne" -> LocalSummarizeOne(a, o)
      [] body = "LocalRateOne" -> LocalRateOne(a, o)
      [] body = "SimpleSummarizeOne" -> SimpleSummarizeOne(a, o)
      [] body = "SimpleRateOne" -> SimpleRateOne(a, o)

\* A loop over `ids` that ends after `k` articles: body One applied, in
\* place, to the first k articles.
LoopOver(st, ids, k, body, o) ==
    [i \in DOMAIN st |->
        IF \E j \in 1..k : ids[j] = i THEN LoopBody(body, st[i], o[i]) ELSE st[i]]

\* The exceptions injected: one of the API errors of the Cloud client, one
\* other exception.
ExcKinds == {"RateLimitError", "RuntimeError"}

\* isinstance(exc, cls) for the classes the except clauses name.
IsInstance(exc, cls) ==
    \/ cls = "Exception"
    \/ cls = exc
    \/ cls = "APIError" /\ exc = "RateLimitError"

\* Variant: the Cloud tier names its API errors only.
HandlersApiOnly(tier) ==
    IF tier = "openai" THEN {"RateLimitError", "APIError"}
    ELSE {"Exception"}

\* The classes named by the except clauses around the call of each tier.
Handlers(tier) ==
    IF tier = "openai" THEN {"RateLimitError", "APIError", "Exception"}
    ELSE {"Exception"}

Catches(tier, exc) == \E cls \in Handlers(tier) : IsInstance(exc, cls)

\* Where an exception that escapes a backend call is injected: before the
\* loop touched any article, or after it finished its first article.
FaultPoints(n) == {k \in {0, 1} : k < n}

\* How a backend call over n articles with one loop can end: it returns
\* after all n, or an exception escapes after `done` of them.
Stops(n) ==
    {[fault |-> FALSE, done |-> n]}
    \cup {[fault |-> TRUE, exc |-> e, done |-> k] : k \in FaultPoints(n), e \in ExcKinds}

\* The same for a backend with a summarizing loop followed by a rating loop.
Stops2(n) ==
    {[fault |-> FALSE, summarized |-> n, rated |-> n]}
    \cup {[fault |-> TRUE, exc |-> e, summarized |-> k, rated |-> 0] :
               k \in FaultPoints(n), e \in ExcKinds}
    \cup {[fault |-> TRUE, exc |-> e, summarized |-> n, rated |-> k] :
               k \in FaultPoints(n), e \in ExcKinds}

\* The replies the backend of a tier can get for one article, and whether
\* it asks for one.
Outcomes(tier) ==
    CASE tier = "ollama" -> OllamaOutcomes
      [] tier = "openai" -> CloudOutcomes
      [] tier = "local" -> SumyOutcomes
      [] tier = "simple" -> SplitOutcomes

Asks(tier, a) ==
    CASE tier = "ollama" -> OllamaAsks(a)
      [] tier = "openai" -> CloudAsks(a)
      [] tier = "local" -> LocalAsks(a)
      [] tier = "simple" -> SimpleAsks(a)

\* The replies a call draws: one for every article its loop reaches that
\* makes a request at all.
Draws(st, ids, k, tier) ==
    LET reached == {ids[j] : j \in 1..k}
        outcomes == Outcomes(tier)
        any == CHOOSE x \in outcomes : TRUE
    IN  {o \in [reached -> outcomes] : \A i \in reached : Asks(tier, st[i]) \/ o[i] = any}

\* OllamaArticleProcessor.process_articles on ids.
OllamaProcess(st, ids, o, stop) ==
    IF Val(ollama_processor).available
    THEN LoopOver(st, ids, stop.done, "OllamaProcessOne", o)
    ELSE LoopOver(st, ids, stop.done, "OllamaPlaceholderOne", o)

\* AdaptiveArticleProcessor._process_with_openai before its score check.
CloudProcess(st, ids, o, stop) ==
    LoopOver(LoopOver(st, ids, stop.summarized, "CloudSummarizeOne", o),
             ids, stop.rated, "CloudRateOne", o)

\* LocalArticleProcessor.process_articles on ids.
LocalProcess(st, ids, o, stop) ==
    LoopOver(LoopOver(st, ids, stop.summarized, "LocalSummarizeOne", o),
             ids, stop.rated, "LocalRateOne", o)

\* SimpleArticleProcessor.process_articles on ids.
SimpleProcess(st, ids, o, stop) ==
    LoopOver(LoopOver(st, ids, stop.summarized, "SimpleSummarizeOne", o),
             ids, stop.rated, "SimpleRateOne", o)

\* Variant: only a negative score is replaced.
VerifyScoreNegative(a) ==
    IF a.importance_score = None \/ Val(a.importance_score) < 0
    THEN [a EXCEPT !.importance_score = Some(DefaultScore)] ELSE a

\* "Verify importance scores": None or <= 0 becomes 0.7.
VerifyScore(a) ==
    IF a.importance_score = None \/ Val(a.importance_score) <= 0
    THEN [a EXCEPT !.importance_score = Some(DefaultScore)] ELSE a

\* Variant: a score of 0.0 counts as missing too.
EnsureScoreOrZero(a) ==
    IF a.importance_score = None \/ Val(a.importance_score) = 0
    THEN [a EXCEPT !.importance_score = Some(DefaultScore)] ELSE a

\* "Ensure all articles have importance scores" / "Final check for missing
\* scores": None becomes 0.7.
EnsureScore(a) ==
    IF a.importance_score = None
    THEN [a EXCEPT !.importance_score = Some(DefaultScore)] ELSE a

\* Variant: the score only.
BasicProcessScoreOnly(a) == [a EXCEPT !.importance_score = Some(BasicScore)]

\* "Last resort": the trivial summary and score 0.6.
BasicProcess(a) ==
    [a EXCEPT !.summary = TitleFromSource(a), !.importance_score = Some(BasicScore)]

\* The loops of process_articles that assign to the articles of a list.
Assign(loop, a) ==
    CASE loop = "VerifyScore" -> VerifyScore(a)
      [] loop = "EnsureScore" -> EnsureScore(a)
      [] loop = "BasicProcess" -> BasicProcess(a)

\* One of these loops over the articles of ids, in place.
ForEach(st, ids, loop) ==
    [i \in DOMAIN st |-> IF i \in Ids(ids) THEN Assign(loop, st[i]) ELSE st[i]]

Call(tier, stop) == [tier |-> tier, outcome |-> IF stop.fault THEN "raised" ELSE "returned"]

\* Variant: the last article is left out.
ExtendButLast(list, more) == list \o SubSeq(more, 1, Len(more) - 1)

\* result_articles.extend(more)
Extend(list, more) == list \o more

\* The tier the code reaches after `tier`.
NextPc(tier) ==
    CASE tier = "ollama" -> "openai"
      [] tier = "openai" -> "local"
      [] tier = "local" -> "simple"
      [] tier = "simple" -> "final"

\* Variant: a tier that returned still hands its articles on.
OnReturnKeepsPending(tier, pending) == [pc |-> NextPc(tier), failed |-> pending]

\* After a call of `tier` on `pending` returned: the Local-Host tier returns
\* at once, the others clear failed_articles (the Simple tier, the last one,
\* leaves it) and go on.
OnReturn(tier, pending) ==
    [pc |-> IF tier = "ollama" THEN "done" ELSE NextPc(tier),
     failed |-> IF tier = "simple" THEN pending ELSE << >>]

\* After a call of `tier` on `pending` raised and the exception was caught:
\* the articles are kept for the next processor.
OnRaise(tier, pending) == [pc |-> NextPc(tier), failed |-> pending]

\* The scores as the backend call returned them, before the orchestrator
\* verified them.
Scores(st, ids, old) == [i \in DOMAIN old |-> IF i \in Ids(ids) THEN st[i].importance_score ELSE old[i]]

\* --------------------------------- AdaptiveArticleProcessor.process_articles
\* `if not articles: return []`, else the two local lists are created.
Start ==
    /\ pc = "start"
    /\ UNCHANGED unit_vars
    /\ IF Len(articles) = 0
       THEN /\ returned' = Some(<< >>)
            /\ pc' = "done"
       ELSE /\ returned' = returned
            /\ pc' = "ollama"
    /\ UNCHANGED <<ollama_processor, openai_processor, local_processor, articles,
                   store, result_articles, failed_articles, calls,
                   gen_timeouts, rate_timeouts, raw_scores>>

\* The end of a tier's try block after the call on `pending` returned
\* `processed`: check(ed) scores, extend result_articles, move on.
TierReturned(tier, pending, processed, check) ==
    /\ store' = ForEach(processed, pending, check)
    /\ raw_scores' = Scores(processed, pending, raw_scores)
    /\ result_articles' = Extend(result_articles, pending)
    /\ failed_articles' = OnReturn(tier, pending).failed
    /\ pc' = OnReturn(tier, pending).pc
    /\ returned' = IF pc' = "done" THEN Some(result_articles') ELSE returned

\* The except clauses of a tier after the call on `pending` raised and left
\* the articles as in `processed`; an exception no clause names leaves
\* process_articles.
TierRaised(tier, exc, pending, processed) ==
    /\ store' = processed
    /\ IF Catches(tier, exc)
       THEN /\ failed_articles' = OnRaise(tier, pending).failed
            /\ pc' = OnRaise(tier, pending).pc
       ELSE /\ failed_articles' = failed_articles
            /\ pc' = "raised"
    /\ UNCHANGED <<result_articles, returned, raw_scores>>

\* "Try Ollama first if available": `if self.ollama_processor:` is the truth
\* value of the processor object, which is None only when it was not built.
TryOllama ==
    /\ pc = "ollama"
    /\ UNCHANGED unit_vars
    /\ IF ollama_processor # None
       THEN \E stop \in Stops(Len(articles)) :
            \E o \in Draws(store, articles, stop.done, "ollama") :
              LET processed == OllamaProcess(store, articles, o, stop)
                  reached == {articles[j] : j \in 1..stop.done}
              IN  /\ calls' = Append(calls, Call("ollama", stop))
                  /\ gen_timeouts' =
                        IF Val(ollama_processor).available
                        THEN {i \in reached : /\ OllamaCallsGenerate(store[i])
                                              /\ o[i].gen.status = "timeout"}
                        ELSE {}
                  /\ rate_timeouts' =
                        IF Val(ollama_processor).available
                        THEN {i \in reached : /\ OllamaCallsRate(store[i])
                                              /\ o[i].rate.status = "timeout"}
                        ELSE {}
                  /\ IF ~stop.fault
                     THEN TierReturned("ollama", articles, processed, "VerifyScore")
                     ELSE TierRaised("ollama", stop.exc, articles, processed)
       ELSE /\ failed_articles' = articles
            /\ pc' = NextPc("ollama")
            /\ UNCHANGED <<store, result_articles, returned, calls,
                           gen_timeouts, rate_timeouts, raw_scores>>
    /\ UNCHANGED <<ollama_processor, openai_processor, local_processor, articles>>

\* "Try OpenAI for failed articles as fallback"; RateLimitError/APIError and
\* any other Exception are both caught and leave failed_articles as it is.
TryOpenAI ==
    /\ pc = "openai"
    /\ UNCHANGED unit_vars
    /\ IF Len(failed_articles) > 0 /\ openai_processor
       THEN \E stop \in Stops2(Len(failed_articles)) :
            \E o \in Draws(store, failed_articles, stop.summarized, "openai") :
              LET processed == CloudProcess(store, failed_articles, o, stop)
              IN  /\ calls' = Append(calls, Call("openai", stop))
                  /\ IF ~stop.fault
                     THEN TierReturned("openai", failed_articles, processed, "EnsureScore")
                     ELSE TierRaised("openai", stop.exc, failed_articles, processed)
       ELSE /\ pc' = NextPc("openai")
            /\ UNCHANGED <<store, result_articles, failed_articles, calls,
                           returned, raw_scores>>
    /\ UNCHANGED <<ollama_processor, openai_processor, local_processor, articles,
                   gen_timeouts, rate_timeouts>>

\* "Try local processing for failed articles".
TryLocal ==
    /\ pc = "local"
    /\ UNCHANGED unit_vars
    /\ IF Len(failed_articles) > 0 /\ local_processor
       THEN \E stop \in Stops2(Len(failed_articles)) :
            \E o \in Draws(store, failed_articles, stop.summarized, "local") :
              LET processed == LocalProcess(store, failed_articles, o, stop)
              IN  /\ calls' = Append(calls, Call("local", stop))
                  /\ IF ~stop.fault
                     THEN TierReturned("local", failed_articles, processed, "VerifyScore")
                     ELSE TierRaised("local", stop.exc, failed_articles, processed)
       ELSE /\ pc' = NextPc("local")
            /\ UNCHANGED <<store, result_articles, failed_articles, calls,
                           returned, raw_scores>>
    /\ UNCHANGED <<ollama_processor, openai_processor, local_processor, articles,
                   gen_timeouts, rate_timeouts>>

\* "Use simple processor as last resort"; its except clause is the last
\* resort: basic summary and score for the failed articles, which are added
\* to the result.
TrySimple ==
    /\ pc = "simple"
    /\ UNCHANGED unit_vars
    /\ IF Len(failed_articles) > 0
       THEN \E stop \in Stops2(Len(failed_articles)) :
            \E o \in Draws(store, failed_articles, stop.summarized, "simple") :
              LET processed == SimpleProcess(store, failed_articles, o, stop)
              IN  /\ calls' = Append(calls, Call("simple", stop))
                  /\ IF ~stop.fault
                     THEN TierReturned("simple", failed_articles, processed, "VerifyScore")
                     ELSE IF Catches("simple", stop.exc)
                     THEN /\ store' = ForEach(processed, failed_articles, "BasicProcess")
                          /\ result_articles' = Extend(result_articles, failed_articles)
                          /\ pc' = NextPc("simple")
                          /\ UNCHANGED <<failed_articles, returned, raw_scores>>
                     ELSE TierRaised("simple", stop.exc, failed_articles, processed)
       ELSE /\ pc' = NextPc("simple")
            /\ UNCHANGED <<store, result_articles, failed_articles, calls,
                           returned, raw_scores>>
    /\ UNCHANGED <<ollama_processor, openai_processor, local_processor, articles,
                   gen_timeouts, rate_timeouts>>

\* "Final check for missing scores", then `return result_articles`.
FinalCheck ==
    /\ pc = "final"
    /\ UNCHANGED unit_vars
    /\ store' = ForEach(store, result_articles, "EnsureScore")
    /\ returned' = Some(result_articles)
    /\ pc' = "done"
    /\ UNCHANGED <<ollama_processor, openai_processor, local_processor, articles,
                   result_articles, failed_articles, calls,
                   gen_timeouts, rate_timeouts, raw_scores>>

Next ==
    \/ Start
    \/ TryOllama
    \/ TryOpenAI
    \/ TryLocal
    \/ TrySimple
    \/ FinalCheck

Spec == Init /\ [][Next]_vars

\* ------------------------------------------------------------- properties
OllamaReturned == [tier |-> "ollama", outcome |-> "returned"]
OllamaRaised == [tier |-> "ollama", outcome |-> "raised"]
OpenAIReturned == [tier |-> "openai", outcome |-> "returned"]
SimpleRaised == [tier |-> "simple", outcome |-> "raised"]

\* process_articles returned, and its batch was not empty.
Finished == pc = "done" /\ Len(articles) > 0

LastCall == calls[Len(calls)]

\* The articles of the returned list.
Output == Ids(Val(returned))

\* The summaries the Cloud backend writes.
CloudKinds == {"NoContentCloud", "FailedCloud", "CloudReply"}

\* C1: for a non-empty batch, the list process_articles returns is the input
\* list: the same Article objects, each once, in input order.
TotalCoverage ==
    Finished => /\ returned = Some(articles)
                /\ DOMAIN store = Ids(articles)

\* C1 witness: a batch of two or more came back after all four tiers were
\* called.
TotalCoverageWitness ==
    /\ Finished
    /\ Len(articles) >= 2
    /\ Len(calls) = 4
    /\ returned = Some(articles)

\* C2: every returned article has a non-empty summary (violated: the
\* Local-Host tier leaves "" for an article without content, the Cloud tier
\* stores an empty reply).
SummaryNonEmpty ==
    Finished => \A i \in Output : store[i].summary.len > 0

\* C3: every returned article has a score, and it lies in [0.0, 1.0].
ScoreInRange ==
    Finished => \A i \in Output :
                   /\ store[i].importance_score # None
                   /\ Val(store[i].importance_score) >= 0
                   /\ Val(store[i].importance_score) <= 100

\* C3 witness: a batch returned by the Cloud tier holds an article whose
\* reply was above 1.0 and one scored 0.0.
ScoreInRangeWitness ==
    /\ Finished
    /\ LastCall = OpenAIReturned
    /\ \E i \in Output : store[i].importance_score = Some(100)
    /\ \E i \in Output : store[i].importance_score = Some(0)

\* C4: process_articles never raises: whichever tiers raise, no exception
\* leaves it, it can always go on until it returns, and what it returns has
\* an entry for every input article.
NeverRaises ==
    /\ pc # "raised"
    /\ pc # "done" => ENABLED Next
    /\ pc = "done" => returned # None /\ Len(Val(returned)) = Len(articles)

\* C4 witness: all four tiers were called, all four raised, and the call
\* returned.
NeverRaisesWitness ==
    /\ Finished
    /\ Len(calls) = 4
    /\ \A j \in 1..4 : calls[j].outcome = "raised"

\* C5: when the available Local-Host backend's call returned, process_articles
\* is over and no other backend was called.
TierShortCircuit ==
    (/\ Len(calls) >= 1
     /\ calls[1] = OllamaReturned
     /\ Val(ollama_processor).available)
    => pc = "done" /\ Len(calls) = 1

\* C5 witness: the Local-Host tier returned a batch in which a score had to
\* be set to 0.7, with the Cloud and Local-Extractive backends available.
TierShortCircuitWitness ==
    /\ Finished
    /\ calls = <<OllamaReturned>>
    /\ Val(ollama_processor).available
    /\ openai_processor /\ local_processor
    /\ \E i \in Output : /\ raw_scores[i] = Some(0)
                         /\ store[i].importance_score = Some(DefaultScore)

\* C6: when the Local-Host call raised and the Cloud call that followed
\* returned, the whole batch was processed by Cloud and no later backend is
\* called.
FallthroughOnBatchFailure ==
    (/\ Len(calls) >= 2
     /\ calls[1] = OllamaRaised
     /\ calls[2] = OpenAIReturned)
    => /\ Len(calls) = 2
       /\ result_articles = articles
       /\ failed_articles = << >>
       /\ \A i \in Ids(articles) :
             /\ store[i].summary.kind \in CloudKinds
             /\ raw_scores[i] # None
             /\ store[i].importance_score = raw_scores[i]

\* C6 witness: a batch of two or more returned after the Local-Host tier
\* raised with its first article already written and Cloud succeeded, with
\* the Local-Extractive backend available.
FallthroughWitness ==
    /\ Finished
    /\ Len(articles) >= 2
    /\ local_processor
    /\ calls = <<OllamaRaised, OpenAIReturned>>

\* C7: a Local-Host backend found unavailable at construction is never
\* called by process_articles (violated: the processor object exists, so the
\* tier is entered and its placeholder loop returns the batch).
UnavailableNeverInvoked ==
    (ollama_processor # None /\ ~Val(ollama_processor).available)
    => \A j \in 1..Len(calls) : calls[j].tier # "ollama"

\* C8 as claimed: after a timeout of a Local-Host HTTP call the batch went on
\* to a later tier, and Local-Host was not called again.
TimeoutFallsThrough ==
    (Finished /\ (gen_timeouts \cup rate_timeouts) # {})
    => /\ Len(calls) >= 2
       /\ \A j \in 2..Len(calls) : calls[j].tier # "ollama"

\* C8 amended: a timeout of a Local-Host HTTP call is caught inside the call:
\* the article gets the title fallback (generate) or 0.5 (rating), the tier's
\* call still returns and then no other tier is called; the Local-Host tier
\* is never called a second time.
TimeoutHandledInCall ==
    /\ \A j \in 2..Len(calls) : calls[j].tier # "ollama"
    /\ (Len(calls) >= 1 /\ calls[1] = OllamaReturned)
       => /\ Len(calls) = 1
          /\ \A i \in gen_timeouts : store[i].summary = TitleFromSource(store[i])
          /\ \A i \in rate_timeouts : store[i].importance_score = Some(MidScore)

\* C8 witness: the Local-Host tier returned a batch in which one generate
\* call and one rating call had timed out.
TimeoutWitness ==
    /\ Finished
    /\ calls = <<OllamaReturned>>
    /\ gen_timeouts # {}
    /\ rate_timeouts # {}

\* C9: when the Simple backend, the last one, raised as well, every returned
\* article has the summary "{title} - From {source_name}" and the score 0.6.
TerminalFallbackLiteral ==
    (Finished /\ Len(calls) >= 1 /\ LastCall = SimpleRaised)
    => /\ returned = Some(articles)
       /\ \A i \in Output :
             /\ store[i].summary = TitleFromSource(store[i])
             /\ store[i].importance_score = Some(BasicScore)

\* C9 witness: every available backend raised, the Simple one after it had
\* summarized an article with a long body.
TerminalFallbackWitness ==
    /\ Finished
    /\ Len(calls) >= 3
    /\ LastCall = SimpleRaised
    /\ \A j \in 1..Len(calls) : calls[j].outcome = "raised"
    /\ \E i \in Output : store[i].content_len > 1000

\* C10: in a batch returned by the Local-Host, Local-Extractive or Simple
\* tier, an article the backend left with no score or a score <= 0 has
\* exactly 0.7, and any other article has the backend's score.
ScoreNormalization ==
    (/\ Finished
     /\ Len(calls) >= 1
     /\ LastCall.outcome = "returned"
     /\ LastCall.tier \in {"ollama", "local", "simple"})
    => \A i \in Output :
          IF raw_scores[i] = None \/ Val(raw_scores[i]) <= 0
          THEN store[i].importance_score = Some(DefaultScore)
          ELSE store[i].importance_score = raw_scores[i]

\* C10 witness: the Local-Host tier returned one article it had scored 0.0
\* and one it had scored 0.45.
ScoreNormalizationWitness ==
    /\ Finished
    /\ LastCall = OllamaReturned
    /\ \E i \in Output : /\ raw_scores[i] = Some(0)
                         /\ store[i].importance_score = Some(DefaultScore)
    /\ \E i \in Output : /\ raw_scores[i] = Some(45)
                         /\ store[i].importance_score = Some(45)

\* C11: every summary a backend or the terminal fallback wrote has at most
\* 250 characters (violated: the Cloud backend stores the reply as it came,
\* the Simple backend returns text[:250] + "..." when it finds no sentence,
\* and the title-derived literals are not cut).
SummaryLengthBound ==
    \A i \in DOMAIN store :
        (store[i].summary # EmptyText) => store[i].summary.len <= SummaryLimit

\* ====================================================================
\* Backend operations called on their own
\* ====================================================================
\* No pipeline is running: the fields of the adaptive processor are idle and
\* `op`, `res` hold the call under study and its result.
Idle ==
    /\ ollama_processor = None
    /\ openai_processor = FALSE
    /\ local_processor = FALSE
    /\ articles = << >>
    /\ store = << >>
    /\ raw_scores = << >>
    /\ result_articles = << >>
    /\ failed_articles = << >>
    /\ pc = "idle"
    /\ returned = None
    /\ calls = << >>
    /\ gen_timeouts = {}
    /\ rate_timeouts = {}

\* A call `name` on `args` that has not run yet; `op` holds it from the
\* start, `res` is None until it ended.
Pending(name, args) == Some([name |-> name, args |-> args])
Args == Val(op).args

\* The pending call `name` ends with `result`.
Return(name, result) ==
    /\ op # None
    /\ Val(op).name = name
    /\ res = None
    /\ res' = Some(result)
    /\ UNCHANGED <<op, pipeline_vars>>

\* --------------------------------------- heuristic scorer on article text
\* Largest number of keywords of one list written into a content.
MaxKeywords == 11
\* Largest number of times a keyword is repeated in a content.
MaxRepeat == 2

\* A text is a sequence of phrases, written one after the other with
\* punctuation between them, so that no keyword spans two phrases.
technical_indicators ==
    << "tutorial", "guide", "how to", "implementation", "deploy", "architecture",
       "benchmark", "performance", "optimization", "deep dive", "code example",
       "pattern", "best practice", "lesson learned", "case study", "analysis",
       "research", "framework", "library", "algorithm", "data structure",
       "authentication", "authorization", "security", "encryption", "api",
       "microservice", "serverless", "cloud native", "container", "kubernetes",
       "docker", "ci/cd", "devops", "continuous integration", "continuous deployment" >>

high_value_topics ==
    << "java", "spring", "jvm", "jdk", "openjdk", "spring boot", "kotlin", "scala",
       "jakarta ee", "java ee", "hibernate", "quarkus", "micronaut", "graalvm",
       "security vulnerability", "cve", "critical bug", "major release", "spring security",
       "java 17", "java 21", "loom", "project loom", "virtual threads", "valhalla",
       "project valhalla", "pattern matching", "sealed classes", "records",
       "memory leak", "performance bottleneck", "garbage collection", "profiling",
       "bytecode", "jit", "compilation", "classloading", "jni", "native interface" >>

jvm_specific_sources ==
    << "infoq java", "java code geeks", "baeldung", "spring blog", "inside java",
       "eclipse blog", "jooq blog", "vlad mihalcea", "dzone java", "jetbrains blog" >>

super_boost_terms ==
    << "critical vulnerability", "major release", "java lts", "spring boot 3",
       "spring framework 6", "jakarta ee 10", "java 21", "jdk 22",
       "virtual threads", "garbage collection improvement" >>

generic_terms ==
    << "best deals", "sale", "discount", "movie", "show", "top 10",
       "best of", "review", "unboxing", "gaming", "games" >>

\* str.lower() on the phrases that are written with capitals.
Lower(p) ==
    CASE p = "Java 21" -> "java 21"
      [] p = "Virtual Threads" -> "virtual threads"
      [] p = "Wholesale" -> "wholesale"
      [] p = "Movie" -> "movie"
      [] p = "Baeldung" -> "baeldung"
      [] p = "InfoQ Java News" -> "infoq java news"
      [] p = "TechCrunch" -> "techcrunch"
      [] OTHER -> p

LowerText(text) == [j \in 1..Len(text) |-> Lower(text[j])]

\* The pairs <<k, p>> of different phrases with `k in p` (k is a substring
\* of p).
Within ==
    { <<"deploy", "continuous deployment">>, <<"framework", "spring framework 6">>,
      <<"garbage collection", "garbage collection improvement">>,
      <<"jakarta ee", "jakarta ee 10">>, <<"java", "java 17">>, <<"java", "java 21">>,
      <<"java", "java ee">>, <<"java", "java lts">>, <<"jdk", "jdk 22">>,
      <<"jdk", "openjdk">>, <<"loom", "project loom">>, <<"pattern", "pattern matching">>,
      <<"performance", "performance bottleneck">>, <<"security", "security vulnerability">>,
      <<"security", "spring security">>, <<"spring", "spring boot">>,
      <<"spring", "spring boot 3">>, <<"spring", "spring framework 6">>,
      <<"spring", "spring security">>, <<"spring boot", "spring boot 3">>,
      <<"valhalla", "project valhalla">>,
      <<"sale", "wholesale">>, <<"infoq java", "infoq java news">> }

\* `kw in p` for one phrase, `kw in text` for a text.
Occurs(kw, p) == kw = p \/ <<kw, p>> \in Within
In(kw, text) == \E j \in 1..Len(text) : Occurs(kw, text[j])

\* Variant: every occurrence of the first k keywords of list counts.
RECURSIVE CountPresentEvery(_, _, _)
CountPresentEvery(list, text, k) ==
    IF k = 0 THEN 0
    ELSE CountPresentEvery(list, text, k - 1)
         + Cardinality({j \in 1..Len(text) : Occurs(list[k], text[j])})

\* sum(1 for kw in list if kw in text), over the first k keywords of list.
RECURSIVE CountPresent(_, _, _)
CountPresent(list, text, k) ==
    IF k = 0 THEN 0
    ELSE CountPresent(list, text, k - 1) + (IF In(list[k], text) THEN 1 ELSE 0)

\* any(kw in text for kw in list)
AnyPresent(list, text) == \E k \in 1..Len(list) : In(list[k], text)

\* The counts and flags rate_importance computes from the article's title,
\* content and source name.
KeywordCounts(article) ==
    LET title_content == LowerText(article.title \o article.content)
        source_name == <<Lower(article.source_name)>>
        title == LowerText(article.title)
    IN  [technical_count |-> CountPresent(technical_indicators, title_content,
                                          Len(technical_indicators)),
         high_value_count |-> CountPresent(high_value_topics, title_content,
                                           Len(high_value_topics)),
         jvm_source |-> AnyPresent(jvm_specific_sources, source_name),
         title_topic |-> AnyPresent(high_value_topics, title),
         super_boost |-> AnyPresent(super_boost_terms, title_content),
         generic_count |-> CountPresent(generic_terms, title_content, Len(generic_terms))]

\* SimpleSummarizer.rate_importance / LocalSummarizer._rate_importance on an
\* article with text.
rate_importance(article) == RateImportance(KeywordCounts(article))

\* The first k phrases of a list, and a phrase written n times.
Take(list, k) == SubSeq(list, 1, k)
Times(text, n) == [j \in 1..(n * Len(text)) |-> text[((j - 1) % Len(text)) + 1]]

\* The titles, source names and contents of the articles scored.
ScorerTitles ==
    { <<"weekly news">>,
      <<"Wholesale", "Movie">>,
      <<"Java 21", "released with", "Virtual Threads">> }

ScorerSources == {"TechCrunch", "InfoQ Java News"}

\* A content with the first kt technical indicators, the first kh high-value
\* topics, the first of each written n times, g of the generic terms and,
\* when b, a critical-event phrase that holds no high-value topic.
ScorerContent(kt, kh, n, g, b) ==
    Times(Take(technical_indicators, Min(kt, 1)), n - 1)
    \o Take(technical_indicators, kt)
    \o Times(Take(high_value_topics, Min(kh, 1)), n - 1)
    \o Take(high_value_topics, kh)
    \o Take(<<"best deals", "sale", "movie">>, g)
    \o (IF b THEN <<"critical vulnerability">> ELSE << >>)

\* Article(title=..., source_name=..., content=...) with its other fields.
TextArticle(title, source_name, content) ==
    [title |-> title, source_name |-> source_name, content |-> content,
     summary |-> EmptyText, importance_score |-> None]

ScorerArticles ==
    { TextArticle(t, s, ScorerContent(kt, kh, n, g, b)) :
        t \in ScorerTitles, s \in ScorerSources,
        kt \in 0..MaxKeywords, kh \in 0..MaxKeywords, n \in 1..MaxRepeat,
        g \in 0..3, b \in BOOLEAN }

\* ------------------------------------- the Local-Extractive backend's scorer
\* The keyword lists of LocalSummarizer._rate_importance.
LocalKeywords ==
    [ technical_indicators |->
        << "tutorial", "guide", "how to", "implementation", "deploy",
           "architecture", "benchmark", "performance", "optimization",
           "deep dive", "code example", "pattern", "best practice",
           "lesson learned", "case study", "analysis", "research", "framework",
           "library", "algorithm", "data structure", "authentication",
           "authorization", "security", "encryption", "api", "microservice",
           "serverless", "cloud native", "container", "kubernetes", "docker",
           "ci/cd", "devops", "continuous integration", "continuous deployment" >>,
      high_value_topics |->
        << "java", "spring", "jvm", "jdk", "openjdk", "spring boot", "kotlin",
           "scala", "jakarta ee", "java ee", "hibernate", "quarkus",
           "micronaut", "graalvm", "security vulnerability", "cve",
           "critical bug", "major release", "spring security", "java 17",
           "java 21", "loom", "project loom", "virtual threads", "valhalla",
           "project valhalla", "pattern matching", "sealed classes", "records",
           "memory leak", "performance bottleneck", "garbage collection",
           "profiling", "bytecode", "jit", "compilation", "classloading", "jni",
           "native interface" >>,
      jvm_specific_sources |->
        << "infoq java", "java code geeks", "baeldung", "spring blog",
           "inside java", "eclipse blog", "jooq blog", "vlad mihalcea",
           "dzone java", "jetbrains blog" >>,
      super_boost_terms |->
        << "critical vulnerability", "major release", "java lts",
           "spring boot 3", "spring framework 6", "jakarta ee 10", "java 21",
           "jdk 22", "virtual threads", "garbage collection improvement" >>,
      generic_terms |->
        << "best deals", "sale", "discount", "movie", "show", "top 10",
           "best of", "review", "unboxing", "gaming", "games" >> ]

\* Variant: the base score the comment of the code names as the earlier
\* one.
LocalBaseScoreEarlier == 60

\* `score = 0.5`
LocalBaseScore == 50

\* LocalSummarizer._rate_importance on an article with text.
local_rate_importance(article) ==
    LET title_content == LowerText(article.title \o article.content)
        technical_count == CountPresent(LocalKeywords.technical_indicators, title_content,
                                        Len(LocalKeywords.technical_indicators))
        technical_score == Min(20, technical_count * 2)
        high_value_count == CountPresent(LocalKeywords.high_value_topics, title_content,
                                         Len(LocalKeywords.high_value_topics))
        high_value_score == Min(40, high_value_count * 4)
        source_name == <<Lower(article.source_name)>>
        title == LowerText(article.title)
        generic_count == CountPresent(LocalKeywords.generic_terms, title_content,
                                      Len(LocalKeywords.generic_terms))
        score == LocalBaseScore + technical_score + high_value_score
                 + (IF AnyPresent(LocalKeywords.jvm_specific_sources, source_name)
                    THEN 10 ELSE 0)
                 + (IF AnyPresent(LocalKeywords.high_value_topics, title) THEN 10 ELSE 0)
                 + (IF AnyPresent(LocalKeywords.super_boost_terms, title_content)
                    THEN 20 ELSE 0)
                 - (IF generic_count >= 2 THEN 20 ELSE 0)
    IN  Max(0, Min(100, score))

\* A call of rate_importance(article) on one of these articles.
ScorerInit ==
    /\ Idle
    /\ op \in {Pending("rate_importance", article) : article \in ScorerArticles}
    /\ res = None

\* rate_importance(article) returns: the score, and the article as the call
\* left it; with it, what LocalSummarizer._rate_importance returns for the
\* same article, and the score after the "Verify importance scores" loop of
\* process_articles.
CallRateImportance ==
    Return("rate_importance",
           [value |-> rate_importance(Args),
            article |-> Args,
            local |-> local_rate_importance(Args),
            verified |-> VerifyScore([Args EXCEPT !.importance_score =
                                         Some(rate_importance(Args))]).importance_score])

ScorerNext == CallRateImportance

ScorerSpec == ScorerInit /\ [][ScorerNext]_vars

\* ---------------------------------------------- properties of the scorer
\* The call under study returned.
Done == op # None /\ res # None

\* The text the scorer reads: lowercase(title + " " + content).
ScoredText == LowerText(Args.title \o Args.content)

\* How many keywords of a list occur in a text at least once / how many
\* occurrences of keywords of the list the text has.
Present(list, text) == Cardinality({k \in 1..Len(list) : In(list[k], text)})
Occurrences(list, text) ==
    Cardinality({kj \in (1..Len(list)) \X (1..Len(text)) : Occurs(list[kj[1]], text[kj[2]])})

FromSpecialist == \E k \in 1..Len(jvm_specific_sources) :
                     Occurs(jvm_specific_sources[k], Lower(Args.source_name))
CriticalEvent == \E k \in 1..Len(super_boost_terms) : In(super_boost_terms[k], ScoredText)
TitleKeyword == \E k \in 1..Len(high_value_topics) :
                   In(high_value_topics[k], LowerText(Args.title))

\* The premise of the generic penalty: at least 2 of "best deals", "sale",
\* "movie" and no high-value topic in the text.
GenericOnly ==
    /\ Present(<<"best deals", "sale", "movie">>, ScoredText) >= 2
    /\ Present(high_value_topics, ScoredText) = 0

\* C12 as claimed: an article with at least 2 of the three generic terms and
\* no high-value topic scores at most 0.3, whatever its source name and
\* whatever technical indicators or critical-event phrases it holds
\* (violated: those still add up to 0.2, 0.1 and 0.2).
GenericPenaltyAnyBonus ==
    (Done /\ Val(op).name = "rate_importance" /\ GenericOnly)
    => Val(res).value <= 30

\* C12 amended: an article with at least 2 of the three generic terms, no
\* high-value topic, no technical indicator, no critical-event phrase and a
\* source that is not a specialist publication scores at most 0.3.
GenericPenalty ==
    (/\ Done /\ Val(op).name = "rate_importance"
     /\ GenericOnly
     /\ Present(technical_indicators, ScoredText) = 0
     /\ ~CriticalEvent
     /\ ~FromSpecialist)
    => Val(res).value <= 30

\* C12 witness: such an article, whose generic terms are found in the title
\* after lowercasing ("Wholesale" holds "sale"), was scored 0.3.
GenericPenaltyWitness ==
    /\ Done /\ Val(op).name = "rate_importance"
    /\ GenericOnly
    /\ Present(technical_indicators, ScoredText) = 0
    /\ ~CriticalEvent
    /\ ~FromSpecialist
    /\ Args.content = << >>
    /\ Val(res).value = 30

\* The score the claimed formula gives for t technical and h high-value
\* keywords counted: clamp of 0.5 + min(0.2, 0.02 t) + min(0.4, 0.04 h)
\* + 0.1 (specialist source) + 0.1 (high-value keyword in the title)
\* + 0.2 (critical-event phrase) - 0.2 (two generic terms or more).
ClaimedScore(t, h) ==
    LET sum == 50 + (IF 2 * t < 20 THEN 2 * t ELSE 20)
                  + (IF 4 * h < 40 THEN 4 * h ELSE 40)
                  + (IF FromSpecialist THEN 10 ELSE 0)
                  + (IF TitleKeyword THEN 10 ELSE 0)
                  + (IF CriticalEvent THEN 20 ELSE 0)
                  - (IF Present(generic_terms, ScoredText) >= 2 THEN 20 ELSE 0)
    IN  IF sum < 0 THEN 0 ELSE IF sum > 100 THEN 100 ELSE sum

\* C13 as claimed: the score is the formula with t and h the numbers of
\* occurrences of technical-indicator and high-value keywords in the text,
\* and the call leaves the article as it was (violated: a keyword written
\* twice is counted once).
ScoreCountsOccurrences ==
    (Done /\ Val(op).name = "rate_importance")
    => /\ Val(res).value = ClaimedScore(Occurrences(technical_indicators, ScoredText),
                                        Occurrences(high_value_topics, ScoredText))
       /\ Val(res).article = Args

\* C13 amended: the score is the formula with t and h the numbers of
\* technical-indicator and high-value keywords that occur in the text at
\* least once, and the call leaves the article as it was.
ScoreCountsKeywords ==
    (Done /\ Val(op).name = "rate_importance")
    => /\ Val(res).value = ClaimedScore(Present(technical_indicators, ScoredText),
                                        Present(high_value_topics, ScoredText))
       /\ Val(res).article = Args

\* C13 witness: an article whose keywords are written several times, with
\* both bonuses at their caps, every other term of the sum present and the
\* sum above 1.0, was scored 1.0.
ScoreCountsWitness ==
    /\ Done /\ Val(op).name = "rate_importance"
    /\ Occurrences(technical_indicators, ScoredText) > Present(technical_indicators, ScoredText)
    /\ Present(technical_indicators, ScoredText) > 10
    /\ Present(high_value_topics, ScoredText) > 10
    /\ FromSpecialist /\ TitleKeyword /\ CriticalEvent
    /\ Present(generic_terms, ScoredText) >= 2
    /\ Val(res).value = 100

\* ------------------------------------------------ properties of the tiers
\* The priority of a tier, and whether its backend was found available at
\* construction.
Rank(tier) ==
    CASE tier = "ollama" -> 1 [] tier = "openai" -> 2
      [] tier = "local" -> 3 [] tier = "simple" -> 4

Available(tier) ==
    CASE tier = "ollama" -> ollama_processor # None /\ Val(ollama_processor).available
      [] tier = "openai" -> openai_processor
      [] tier = "local" -> local_processor
      [] tier = "simple" -> TRUE

Invoked(tier) == \E j \in 1..Len(calls) : calls[j].tier = tier
RaisedIn(tier) == \E j \in 1..Len(calls) : calls[j] = [tier |-> tier, outcome |-> "raised"]

\* C14: the tiers are called in the order Local-Host, Cloud, Local-Extractive,
\* Simple, each at most once; a tier is called only if it is available and
\* every available tier before it raised; and in a finished call on a
\* non-empty batch Simple was called exactly when every tier before it was
\* unavailable or raised (violated: a Local-Host backend built but found
\* unavailable is called, and when its call returns Simple is not called).
TierOrder ==
    /\ \A i, j \in 1..Len(calls) : i < j => Rank(calls[i].tier) < Rank(calls[j].tier)
    /\ \A j \in 1..Len(calls) :
          /\ Available(calls[j].tier)
          /\ \A t \in {"ollama", "openai", "local"} :
                (Rank(t) < Rank(calls[j].tier) /\ Available(t)) => RaisedIn(t)
    /\ Finished =>
          (Invoked("simple") <=>
              \A t \in {"ollama", "openai", "local"} : ~Available(t) \/ RaisedIn(t))

\* The body of the Local-Host loop raises for the article, whatever the
\* service replies.
RaisesInLoop(a) ==
    \A o \in OllamaOutcomes :
        \/ OllamaGenerateSummary(a, o.gen).raised
        \/ OllamaRateImportance(a, o.rate).raised

\* C15: when the loop of the available Local-Host backend went over an
\* article whose processing raised, the article has the summary
\* "{title} - From {source_name}" and the score 0.5 and, once the call
\* returned, it is in the result with every other article of the batch
\* (violated: the except block fills the summary only when it is None, and
\* the field's default is "").
PerArticleIsolation ==
    (/\ Len(calls) >= 1
     /\ calls[1] = OllamaReturned
     /\ Val(ollama_processor).available)
    => /\ result_articles = articles
       /\ \A i \in Ids(articles) :
             RaisesInLoop(store[i]) =>
                /\ store[i].summary = TitleFromSource(store[i])
                /\ store[i].importance_score = Some(MidScore)

\* ---------------------------------------- the availability probe on its own
\* Largest number of installed models the service lists.
MaxModels == 3

Llama3_70b == [base |-> "llama3", tag |-> "70b"]

\* OllamaProcessor(model_name) is constructed while GET /api/tags fails,
\* answers another status than 200, or lists up to MaxModels installed models.
ProbeInit ==
    /\ Idle
    /\ res = None
    /\ \E model_name \in {Llama3, Llama3_8b}, status \in {"error", "non200", "ok"} :
       \E n \in 0..MaxModels :
       \E models \in [1..n -> {Llama3, Llama3_8b, Llama3_70b, Mistral}] :
          /\ status # "ok" => n = 0
          /\ op = Pending("_check_availability",
                          [model_name |-> model_name,
                           probe |-> [status |-> status, models |-> models]])

\* _check_availability returns: self.available and self.model_name.
CallCheckAvailability ==
    Return("_check_availability", CheckAvailability(Args.model_name, Args.probe))

ProbeSpec == ProbeInit /\ [][CallCheckAvailability]_vars

\* The installed models, and those of the family of the requested one.
Installed == {Args.probe.models[j] : j \in 1..Len(Args.probe.models)}
Family == {m \in Installed : m.base = Args.model_name.base}

\* C16: the backend is unavailable exactly when the probe failed or listed
\* no model; when it is available its model is an installed one: the
\* requested name if installed, else a model of the requested family if one
\* is installed, else the first model listed.
ModelSelection ==
    (Done /\ Val(op).name = "_check_availability")
    => /\ ~Val(res).available <=> (Args.probe.status # "ok" \/ Installed = {})
       /\ Val(res).available =>
             /\ Val(res).model_name \in Installed
             /\ Args.model_name \in Installed => Val(res).model_name = Args.model_name
             /\ (Args.model_name \notin Installed /\ Family # {})
                   => Val(res).model_name \in Family
             /\ Family = {} => Val(res).model_name = Args.probe.models[1]

\* C16 witness: the requested model is not installed, the first model listed
\* is of another family, and a later one of the requested family was taken.
ModelSelectionWitness ==
    /\ Done /\ Val(op).name = "_check_availability"
    /\ Val(res).available
    /\ Args.model_name \notin Installed
    /\ Args.probe.models[1] \notin Family
    /\ Val(res).model_name \in Family

\* --------------------------------- the Local-Host rating call on its own
\* Longest reply of the model to the rating prompt, in characters.
MaxReplyLen == 4

\* A reply to the rating prompt is a sequence of these characters.
RatingAlphabet == {"0", "1", "7", ".", "-", " "}

IsDigit(c) == c \in {"0", "1", "2", "3", "4", "5", "6", "7", "8", "9"}
DigitValue(c) ==
    CASE c = "0" -> 0 [] c = "1" -> 1 [] c = "2" -> 2 [] c = "3" -> 3 [] c = "4" -> 4
      [] c = "5" -> 5 [] c = "6" -> 6 [] c = "7" -> 7 [] c = "8" -> 8 [] c = "9" -> 9

\* str.strip(): the text without its leading and trailing blanks.
Strip(s) ==
    LET inked == {j \in 1..Len(s) : s[j] # " "}
        lo == CHOOSE j \in inked : \A l \in inked : j <= l
        hi == CHOOSE j \in inked : \A l \in inked : j >= l
    IN  IF inked = {} THEN << >> ELSE SubSeq(s, lo, hi)

\* \d+ from position p: the position after the longest run of digits.
RECURSIVE DigitsEnd(_, _)
DigitsEnd(s, p) ==
    IF p <= Len(s) /\ IsDigit(s[p]) THEN DigitsEnd(s, p + 1) ELSE p

\* (\d+\.\d+|\d+) tried at position p: the decimal alternative first, then
\* the integer one; None when neither matches there.
MatchAt(s, p) ==
    LET q == DigitsEnd(s, p)
        r == DigitsEnd(s, q + 1)
    IN  IF q = p THEN None
        ELSE IF q <= Len(s) /\ s[q] = "." /\ r > q + 1
        THEN Some([int |-> SubSeq(s, p, q - 1), frac |-> SubSeq(s, q + 1, r - 1)])
        ELSE Some([int |-> SubSeq(s, p, q - 1), frac |-> << >>])

\* Variant: re.match, the pattern tried at the start of the reply only.
RECURSIVE SearchAtStartOnly(_, _)
SearchAtStartOnly(s, p) == IF p > Len(s) THEN None ELSE MatchAt(s, p)

\* re.search: the match at the leftmost position that has one.
RECURSIVE Search(_, _)
Search(s, p) ==
    IF p > Len(s) THEN None
    ELSE IF MatchAt(s, p) # None THEN MatchAt(s, p)
    ELSE Search(s, p + 1)

\* The integer a run of digits denotes.
RECURSIVE Number(_)
Number(digits) ==
    IF Len(digits) = 0 THEN 0
    ELSE 10 * Number(SubSeq(digits, 1, Len(digits) - 1)) + DigitValue(digits[Len(digits)])

\* float(token) in hundredths; a score keeps two decimals, further digits
\* are dropped.
Hundredths(token) ==
    100 * Number(token.int)
    + (IF Len(token.frac) >= 1 THEN 10 * DigitValue(token.frac[1]) ELSE 0)
    + (IF Len(token.frac) >= 2 THEN DigitValue(token.frac[2]) ELSE 0)

\* The rating read from the reply: rating_text = response.strip(),
\* re.search, float(group(1)).
ParseRating(text) ==
    LET m == Search(Strip(text), 1)
    IN  IF m = None THEN None ELSE Some(Hundredths(Val(m)))

\* _rate_importance(article) is called on an article with title and
\* content, and the service fails or replies some text; or on an article
\* without title.
RatingInit ==
    /\ Idle
    /\ res = None
    /\ \/ \E n \in 0..MaxReplyLen : \E text \in [1..n -> RatingAlphabet] :
             op = Pending("_rate_importance",
                          [article |-> Article(20, 9, 60, PlainFeat),
                           status |-> "ok", text |-> text])
       \/ \E a \in {Article(20, 9, 60, PlainFeat), Article(0, 9, 60, PlainFeat)} :
             op = Pending("_rate_importance",
                          [article |-> a, status |-> "timeout", text |-> << >>])

\* _rate_importance returns (or raises).
CallOllamaRateImportance ==
    Return("_rate_importance",
           OllamaRateImportance(Args.article,
                                [status |-> Args.status, number |-> ParseRating(Args.text)]))

RatingSpec == RatingInit /\ [][CallOllamaRateImportance]_vars

\* The first numeric token of the reply, stated on the positions of the
\* text: it starts at the first digit, takes the digits that follow and,
\* when a "." and a digit come next, the "." and the digits after it.
DigitAt == {j \in 1..Len(Args.text) : IsDigit(Args.text[j])}
TokenStart == CHOOSE j \in DigitAt : \A l \in DigitAt : j <= l
RunEnd(p) == CHOOSE j \in p..Len(Args.text) :
                /\ \A l \in p..j : l \in DigitAt
                /\ (j + 1) \notin DigitAt
IsDecimal ==
    /\ RunEnd(TokenStart) + 2 <= Len(Args.text)
    /\ Args.text[RunEnd(TokenStart) + 1] = "."
    /\ (RunEnd(TokenStart) + 2) \in DigitAt
TokenValue ==
    LET q == RunEnd(TokenStart)
        int == 100 * Number(SubSeq(Args.text, TokenStart, q))
        frac == SubSeq(Args.text, q + 2, RunEnd(q + 2)) \o <<"0">>
    IN  IF IsDecimal THEN int + Number(SubSeq(frac, 1, 2)) ELSE int

\* C17: the rating call returns the first numeric token of the reply clamped
\* to [0.0, 1.0], 0.5 when the reply has no numeric token, and 0.5 when the
\* request failed; it does not raise.
RatingFromReply ==
    (Done /\ Val(op).name = "_rate_importance")
    => /\ ~Val(res).raised
       /\ Args.status # "ok" => Val(res).value = MidScore
       /\ (Args.status = "ok" /\ DigitAt = {}) => Val(res).value = MidScore
       /\ (Args.status = "ok" /\ DigitAt # {}) =>
             Val(res).value = (IF TokenValue > 100 THEN 100 ELSE TokenValue)

\* C17 witness: a reply whose first numeric token comes after other
\* characters and is the decimal 0.7 was rated 0.7.
RatingFromReplyWitness ==
    /\ Done /\ Val(op).name = "_rate_importance"
    /\ Args.status = "ok"
    /\ DigitAt # {} /\ TokenStart > 1
    /\ IsDecimal
    /\ Val(res).value = 70

\* -------------------------------- the Local-Host summary call on its own
\* How far past the 250 characters of a summary the replies drawn go.
MaxOver == 5

\* text_to_summarize is cut after 10000 characters
PromptLimit == 10000

\* The article content as it is put into the prompt: its first `kept`
\* characters, followed by "..." when it was cut.
PromptContent(a) ==
    IF a.content_len > PromptLimit
    THEN [kept |-> PromptLimit, ellipsis |-> TRUE]
    ELSE [kept |-> a.content_len, ellipsis |-> FALSE]

\* result.get("response", "").strip() of a reply of `len` characters
\* between `lead` and `trail` blanks.
StripReply(reply) ==
    IF reply.status # "ok" THEN GenTimeout ELSE GenReply(reply.len)

\* _generate_summary(article) is called on an article with content, and the
\* service fails or replies a text.
SummaryInit ==
    /\ Idle
    /\ res = None
    /\ \E content_len \in {60, PromptLimit, PromptLimit + 1} :
       \E status \in {"ok", "timeout"}, len \in 0..(SummaryLimit + MaxOver),
          lead \in 0..1, trail \in 0..1 :
          /\ status # "ok" => (len = 0 /\ lead = 0 /\ trail = 0)
          /\ op = Pending("_generate_summary",
                          [article |-> Article(20, 9, content_len, PlainFeat),
                           reply |-> [status |-> status, lead |-> lead,
                                      len |-> len, trail |-> trail]])

\* _generate_summary returns: what it sent and its outcome.
CallOllamaGenerateSummary ==
    Return("_generate_summary",
           [sent |-> PromptContent(Args.article),
            outcome |-> OllamaGenerateSummary(Args.article, StripReply(Args.reply))])

SummarySpec == SummaryInit /\ [][CallOllamaGenerateSummary]_vars

\* C18: the summary call returns the title fallback when the request failed
\* or the trimmed reply has fewer than 20 characters, the reply cut to 247
\* characters and "..." when it has more than 250, and the trimmed reply as
\* it is otherwise; the prompt holds at most the first 10000 characters of
\* the content.
SummaryFromReply ==
    (Done /\ Val(op).name = "_generate_summary")
    => LET a == Args.article
           reply == Args.reply
           out == Val(res).outcome
       IN  /\ ~out.raised
           /\ reply.status # "ok" => out.value = TitleFromSource(a)
           /\ (reply.status = "ok" /\ reply.len < 20) => out.value = TitleFromSource(a)
           /\ (reply.status = "ok" /\ reply.len > 250) =>
                 out.value = [kind |-> "OllamaReply", len |-> 250]
           /\ (reply.status = "ok" /\ reply.len >= 20 /\ reply.len <= 250) =>
                 out.value = [kind |-> "OllamaReply", len |-> reply.len]
           /\ Val(res).sent.kept <= 10000
           /\ Val(res).sent.kept = (IF a.content_len < 10000 THEN a.content_len ELSE 10000)

\* C18 witness: a content of more than 10000 characters was sent cut, and
\* the reply of more than 250 characters came back as 250.
SummaryFromReplyWitness ==
    /\ Done /\ Val(op).name = "_generate_summary"
    /\ Args.article.content_len > 10000
    /\ Val(res).sent = [kept |-> 10000, ellipsis |-> TRUE]
    /\ Args.reply.len > 250
    /\ Val(res).outcome.value.len = 250

\* ------------------------------------- the Cloud rating loop on its own
\* Largest batch handed to rate_articles.
MaxRated == 3

\* What the rating request of one article can end in: an API error, a reply
\* that is not JSON, a score that is not a number, or {"score": number}.
RateReplies ==
    { [status |-> "error", number |-> 0],
      [status |-> "not json", number |-> 0],
      [status |-> "bad score", number |-> 0],
      ScoreReply(0 - 20), ScoreReply(45), ScoreReply(150) }

\* rate_articles(articles) is called: `op` holds the reply each article will
\* get, `res` the scores assigned so far and whether the call returned.
RaterInit ==
    /\ Idle
    /\ \E n \in 1..MaxRated :
          /\ op \in {Pending("rate_articles", replies) : replies \in [1..n -> RateReplies]}
          /\ res = Some([scores |-> << >>, returned |-> FALSE])

\* One turn of the loop of rate_articles: the next article is rated.
\* _rate_article returns for every reply, so the handler of the loop (which
\* would assign 0.0) is not entered.
RateArticle ==
    /\ op # None /\ Val(op).name = "rate_articles"
    /\ ~Val(res).returned
    /\ Len(Val(res).scores) < Len(Args)
    /\ LET j == Len(Val(res).scores) + 1
       IN  res' = Some([scores |-> Append(Val(res).scores,
                                          CloudRateArticle(Article(20, 9, 60, PlainFeat), Args[j])),
                        returned |-> FALSE])
    /\ UNCHANGED <<op, pipeline_vars>>

\* The end of the loop: `return articles`.
RateReturn ==
    /\ op # None /\ Val(op).name = "rate_articles"
    /\ ~Val(res).returned
    /\ Len(Val(res).scores) = Len(Args)
    /\ res' = Some([scores |-> Val(res).scores, returned |-> TRUE])
    /\ UNCHANGED <<op, pipeline_vars>>

RaterNext == RateArticle \/ RateReturn

RaterSpec == RaterInit /\ [][RaterNext]_vars

\* C19: every article rated so far has its parsed score clamped to
\* [0.0, 1.0], or 0.5 when its request or the parsing of its reply failed;
\* the loop goes on after a failure, and when the call returned every
\* article of the batch has been rated.
CloudRatingIsolation ==
    (op # None /\ Val(op).name = "rate_articles")
    => LET scores == Val(res).scores
       IN  /\ \A j \in 1..Len(scores) :
                 /\ Args[j].status # "ok" => scores[j] = 50
                 /\ Args[j].status = "ok" =>
                       /\ scores[j] >= 0 /\ scores[j] <= 100
                       /\ (Args[j].number >= 0 /\ Args[j].number <= 100)
                             => scores[j] = Args[j].number
                       /\ Args[j].number < 0 => scores[j] = 0
                       /\ Args[j].number > 100 => scores[j] = 100
           /\ (~Val(res).returned /\ Len(scores) < Len(Args)) => ENABLED RateArticle
           /\ Val(res).returned => Len(scores) = Len(Args)

\* C19 witness: the call returned a batch in which the request of the first
\* article had failed and the later ones were rated, one of them above 1.0.
CloudRatingWitness ==
    /\ op # None /\ Val(op).name = "rate_articles"
    /\ Val(res).returned
    /\ Len(Args) >= 3
    /\ Args[1].status = "error"
    /\ Val(res).scores[1] = 50
    /\ \E j \in 2..Len(Args) : Args[j].number = 150 /\ Val(res).scores[j] = 100
    /\ \E j \in 2..Len(Args) : Val(res).scores[j] = 45

\* ----------------------------- the Extractive Summarizer call on its own
\* LocalSummarizer._generate_summary(article) is called on an article whose
\* content has up to 100 + MaxOver characters, and the cleaning and sentence
\* ranking fail or give sentences.
ExtractiveInit ==
    /\ Idle
    /\ res = None
    /\ \E content_len \in 0..(100 + MaxOver), o \in SumyOutcomes :
          op = Pending("LocalSummarizer._generate_summary",
                       [article |-> Article(20, 9, content_len, PlainFeat), sumy |-> o])

\* The call as summarize_articles makes it: the summary stored.
CallLocalGenerateSummary ==
    Return("LocalSummarizer._generate_summary",
           LocalSummarizeOne(Args.article, Args.sumy).summary)

ExtractiveSpec == ExtractiveInit /\ [][CallLocalGenerateSummary]_vars

\* C20: the Extractive Summarizer returns a summary for every article: the
\* literal "{title} - No content available for summarization." when the
\* content has fewer than 100 characters, and "{title} - From {source_name}"
\* when cleaning or sentence ranking failed (violated: the handler inside
\* _generate_summary returns "Failed to generate summary for '{title}'.").
ExtractiveFallback ==
    (Done /\ Val(op).name = "LocalSummarizer._generate_summary")
    => /\ Args.article.content_len < 100 =>
             Val(res) = [kind |-> "TitleNoContent", len |-> Args.article.title_len + 42]
       /\ (Args.article.content_len >= 100 /\ Args.sumy.status # "ok") =>
             Val(res) = TitleFromSource(Args.article)

\* The article as it entered process_articles.
Fresh(a) == [a EXCEPT !.summary = EmptyText, !.importance_score = None]

\* What the tier of `call`, given the article as it entered and nothing
\* else, leaves in it for some reply.
WrittenBy(call, a) ==
    IF call.outcome = "raised" THEN a = BasicProcess(Fresh(a))
    ELSE CASE call.tier = "ollama" ->
                \E o \in OllamaOutcomes :
                   a = VerifyScore(IF Val(ollama_processor).available
                                   THEN OllamaProcessOne(Fresh(a), o)
                                   ELSE OllamaPlaceholderOne(Fresh(a)))
           [] call.tier = "openai" ->
                \E o \in CloudOutcomes :
                   a = EnsureScore(CloudRateOne(CloudSummarizeOne(Fresh(a), o), o))
           [] call.tier = "local" ->
                \E o \in SumyOutcomes :
                   a = VerifyScore(LocalRateOne(LocalSummarizeOne(Fresh(a), o), o))
           [] call.tier = "simple" ->
                \E o \in SplitOutcomes :
                   a = VerifyScore(SimpleRateOne(SimpleSummarizeOne(Fresh(a), o), o))

\* The articles still to be handed to a tier: the input list until the first
\* tier was tried, failed_articles from then on.
PendingArticles == IF pc \in {"start", "ollama"} THEN articles ELSE failed_articles

\* C28 as claimed: at every point either nothing is in the result and the
\* whole batch is pending, or the whole batch is in the result and nothing is
\* pending; every article of a returned batch holds the summary and score of
\* the one tier called last (violated: the Simple tier and the terminal
\* fallback put the batch into the result and leave failed_articles as it
\* was).
AllOrNothingPendingCleared ==
    /\ \/ result_articles = << >> /\ PendingArticles = articles
       \/ result_articles = articles /\ PendingArticles = << >>
    /\ Finished => \A i \in Output : WrittenBy(LastCall, store[i])

\* C28: tier results are all-or-nothing.  At every point of process_articles
\* either nothing is in the result and the whole batch is pending, or the
\* whole batch is in the result and nothing is pending, or the Simple tier,
\* the last one, was called and the whole batch is in the result with
\* failed_articles left as it was; and every article of a returned batch
\* holds the summary and score that the one tier called last (or the
\* terminal fallback) writes into the article as it came in, whatever the
\* tiers that raised before had written.
AllOrNothing ==
    /\ \/ result_articles = << >> /\ PendingArticles = articles
       \/ result_articles = articles /\ PendingArticles = << >>
       \/ /\ result_articles = articles
          /\ pc \in {"final", "done"}
          /\ Len(calls) > 0
          /\ LastCall.tier = "simple"
          /\ PendingArticles = articles
    /\ Finished => \A i \in Output : WrittenBy(LastCall, store[i])

\* C28 witness: a batch of two returned by the Simple tier after the
\* Local-Host tier had raised behind its first article and the
\* Local-Extractive tier had raised too: the batch is in the result and
\* failed_articles still holds it.
AllOrNothingWitness ==
    /\ Finished
    /\ Len(articles) = 2
    /\ Len(calls) >= 3
    /\ calls[1] = OllamaRaised
    /\ calls[Len(calls) - 1] = [tier |-> "local", outcome |-> "raised"]
    /\ LastCall = [tier |-> "simple", outcome |-> "returned"]
    /\ result_articles = articles
    /\ failed_articles = articles

\* C30: the Cloud tier replaces only a missing score.  In a batch returned by
\* the Cloud tier every article the backend scored keeps that score, 0.0
\* included; in a batch that came back any other way every score is above 0.
CloudKeepsZero ==
    Finished => \A i \in Output :
        IF LastCall = OpenAIReturned
        THEN /\ raw_scores[i] # None => store[i].importance_score = raw_scores[i]
             /\ raw_scores[i] = None => store[i].importance_score = Some(DefaultScore)
        ELSE /\ store[i].importance_score # None
             /\ Val(store[i].importance_score) > 0

\* C30 witness: a batch of two returned by the Cloud tier, one article scored
\* exactly 0.0 by the backend and returned with 0.0, after the Local-Host
\* tier had raised.
CloudKeepsZeroWitness ==
    /\ Finished
    /\ Len(articles) = 2
    /\ calls = <<OllamaRaised, OpenAIReturned>>
    /\ \E i \in Output : /\ raw_scores[i] = Some(0)
                         /\ store[i].importance_score = Some(0)

\* C27: for every article, LocalSummarizer._rate_importance and
\* SimpleSummarizer.rate_importance return the same score.
ScorersAgree ==
    Done => Val(res).local = Val(res).value

\* C27 witness: both scorers gave 0.7 to an article of a specialist source
\* whose text holds a critical-event phrase and two generic terms.
ScorersAgreeWitness ==
    /\ Done
    /\ FromSpecialist
    /\ CriticalEvent
    /\ Present(generic_terms, ScoredText) >= 2
    /\ Val(res).value = 70
    /\ Val(res).local = 70

\* C29: the heuristic scorer returns at least 0.3, so the "None or <= 0
\* becomes 0.7" check of the Local-Extractive and Simple tiers leaves its
\* score as it is.
HeuristicFloor ==
    Done => /\ Val(res).value >= 30
            /\ Val(res).local >= 30
            /\ Val(res).verified = Some(Val(res).value)

\* C29 witness: an article with two generic terms and nothing else scored
\* exactly 0.3, and the check kept 0.3.
HeuristicFloorWitness ==
    /\ Done
    /\ Present(generic_terms, ScoredText) >= 2
    /\ Val(res).value = 30
    /\ Val(res).verified = Some(30)

\* ------------------------------------- Simple summarizer on sentence level
\* Largest number of sentences of a content, largest sentences_count.
MaxSentences == 4
MaxCount == 3

\* The sentences a content is written from: `len` characters, the last a
\* full stop, of which `overlap` words are words of the title.
SentenceKinds ==
    { [len |-> 15, overlap |-> 0], [len |-> 20, overlap |-> 0],
      [len |-> 21, overlap |-> 0], [len |-> 28, overlap |-> 1],
      [len |-> 200, overlap |-> 0], [len |-> 400, overlap |-> 0],
      [len |-> 400, overlap |-> 1] }

\* len(" ".join(sentences))
RECURSIVE JoinLen(_)
JoinLen(sentences) ==
    IF Len(sentences) = 0 THEN 0
    ELSE IF Len(sentences) = 1 THEN sentences[1].len
    ELSE sentences[1].len + 1 + JoinLen(Tail(sentences))

\* len(text): a text is its sentences joined by single blanks, followed by
\* `pad` blanks.
TextLen(text) == JoinLen(text.sentences) + text.pad

\* Variant: the length is taken of the text as it came.
TooShortUnstripped(text) == TextLen(text) < 50

\* `len(text.strip()) < 50`
TooShort(text) == JoinLen(text.sentences) < 50

\* SimpleSummarizer._clean_text: runs of whitespace become one blank, the
\* ends are stripped; the texts drawn hold no URL.
CleanText(text) == [text EXCEPT !.pad = 0]

\* `len(s.strip()) > 20`
LongEnough(s) == s.len > 20

\* SimpleSummarizer._split_into_sentences.
SplitIntoSentences(text) == SelectSeq(text.sentences, LongEnough)

\* seq[:k] of Python, k negative included.
Slice(seq, k) ==
    IF k >= 0 THEN SubSeq(seq, 1, Min(k, Len(seq)))
    ELSE SubSeq(seq, 1, Max(0, Len(seq) + k))

\* (0.5 * relevance_to_title) + (0.5 * position_score) of the sentence at
\* index i, times 240 * max(1, len(title_words)).
TotalScore(sentence, i, title_words) ==
    120 * sentence.overlap + (120 * Max(1, title_words)) \div (i + 1)

\* scored_sentences.sort(reverse=True): the entry with the highest score
\* first (the texts drawn give no two sentences the same score).
RECURSIVE SortReverse(_)
SortReverse(scored) ==
    IF Len(scored) = 0 THEN << >>
    ELSE LET k == CHOOSE k \in 1..Len(scored) :
                     \A j \in 1..Len(scored) : scored[j].total_score <= scored[k].total_score
             rest == [j \in 1..(Len(scored) - 1) |->
                         IF j < k THEN scored[j] ELSE scored[j + 1]]
         IN  <<scored[k]>> \o SortReverse(rest)

\* The loop over sentences[1:-1]: an entry for every interior sentence of
\* 30 characters or more.
RECURSIVE ScoredSentences(_, _, _)
ScoredSentences(sentences, i, title_words) ==
    IF i + 1 >= Len(sentences) THEN << >>
    ELSE (IF sentences[i + 1].len < 30 THEN << >>
          ELSE <<[total_score |-> TotalScore(sentences[i + 1], i, title_words),
                  sentence |-> sentences[i + 1]]>>)
         \o ScoredSentences(sentences, i + 1, title_words)

\* SimpleSummarizer._select_important_sentences.
SelectImportantSentences(sentences, title_words, sentences_count) ==
    IF Len(sentences) <= sentences_count THEN sentences
    ELSE LET scored_sentences == SortReverse(ScoredSentences(sentences, 1, title_words))
             top == Slice(scored_sentences, sentences_count - 2)
             selected_sentences ==
                 <<sentences[1]>>
                 \o [j \in 1..Len(top) |-> top[j].sentence]
                 \o (IF Len(sentences) > 2 THEN <<sentences[Len(sentences)]>> ELSE << >>)
         IN  Slice(selected_sentences, sentences_count)

\* SimpleSummarizer(sentences_count)._generate_summary(article): the kind
\* of text returned, the sentences it is made of, its length.
\* content "" raises AttributeError at article.description, which the
\* except clause turns into the title fallback.
generate_summary(article, sentences_count) ==
    LET text == article.content
        fallback == [kind |-> "TitleFromSource", picked |-> << >>,
                     len |-> TitleFromSource(article).len]
    IN  IF TextLen(text) = 0 THEN fallback
        ELSE IF TooShort(text) THEN fallback
        ELSE IF TextLen(text) <= SummaryLimit
        THEN [kind |-> "Content", picked |-> text.sentences, len |-> TextLen(text)]
        ELSE LET sentences == SplitIntoSentences(CleanText(text))
                 chosen == IF TextLen(text) > 1000
                           THEN SelectImportantSentences(sentences, article.title_words,
                                                         sentences_count)
                           ELSE Slice(sentences, 3)
                 summary == Truncate([kind |-> "Sentences", len |-> JoinLen(chosen)])
             IN  IF Len(sentences) = 0
                 THEN [kind |-> "ContentHead", picked |-> text.sentences,
                       len |-> SummaryLimit + 3]
                 ELSE IF summary.len < 20 THEN fallback
                 ELSE [kind |-> "Sentences", picked |-> chosen, len |-> summary.len]

\* A call of SimpleSummarizer(sentences_count)._generate_summary(article) on
\* an article whose title has two words longer than 3 letters; each
\* sentence of the content carries the place `at` it has there.
SimpleInit ==
    /\ Idle
    /\ \E n \in 0..MaxSentences, pad \in {0, 1}, count \in 1..MaxCount :
       \E kinds \in [1..n -> SentenceKinds] :
          op = Pending("_generate_summary",
                       [article |-> [title_len |-> 30, source_len |-> 10, title_words |-> 2,
                                     content |->
                                        [sentences |->
                                            [j \in 1..n |->
                                                [at |-> j, len |-> kinds[j].len,
                                                 overlap |-> kinds[j].overlap]],
                                         pad |-> pad]],
                        sentences_count |-> count])
    /\ res = None

\* _generate_summary returns.
CallSimpleGenerateSummary ==
    Return("_generate_summary",
           [summary |-> generate_summary(Args.article, Args.sentences_count)])

SimpleSpec == SimpleInit /\ [][CallSimpleGenerateSummary]_vars

\* C21 as claimed: a text that is not empty and has at most 250 characters
\* is returned as it is, and the title fallback is returned only for an
\* article without text (violated: a text under 50 characters gets the
\* title fallback).
VerbatimWhenShort ==
    Done => LET text == Args.article.content
                summary == Val(res).summary
            IN  /\ (TextLen(text) > 0 /\ TextLen(text) <= SummaryLimit)
                      => /\ summary.kind = "Content"
                         /\ summary.len = TextLen(text)
                         /\ summary.picked = text.sentences
                /\ summary.kind = "TitleFromSource" => TextLen(text) = 0

\* C21: a text of at most 250 characters that has at least 50 characters
\* between its first and last non-blank character is returned as it is, and
\* the title fallback is returned exactly for the texts with fewer than 50
\* such characters, the empty text among them.
VerbatimWhenEnough ==
    Done => LET text == Args.article.content
                summary == Val(res).summary
            IN  /\ (JoinLen(text.sentences) >= 50 /\ TextLen(text) <= SummaryLimit)
                      => /\ summary.kind = "Content"
                         /\ summary.len = TextLen(text)
                         /\ summary.picked = text.sentences
                /\ summary.kind = "TitleFromSource" <=> JoinLen(text.sentences) < 50

\* C21 witness: a text of 50 characters and a trailing blank came back as
\* its 51 characters.
VerbatimWhenEnoughWitness ==
    /\ Done
    /\ Val(op).name = "_generate_summary"
    /\ JoinLen(Args.article.content.sentences) = 50
    /\ Args.article.content.pad = 1
    /\ Val(res).summary.kind = "Content"
    /\ Val(res).summary.len = 51

\* The sentences of 20 characters or more, in text order.
AtLeastTwenty(s) == s.len >= 20
KeptSentences == SelectSeq(Args.article.content.sentences, AtLeastTwenty)

\* The interior sentences of a list, each with its score, best first.
RankedInterior(sentences) ==
    SortReverse([j \in 1..(Len(sentences) - 2) |->
                    [total_score |-> TotalScore(sentences[j + 1], j, Args.article.title_words),
                     sentence |-> sentences[j + 1]]])

\* C22: sentences under 20 characters are discarded before the selection;
\* the first remaining sentence is always kept; a text of at most 1000
\* characters gives the first N remaining sentences, a longer one the first
\* sentence, the N-2 best-ranked interior sentences and the final sentence
\* (violated: the shorter text gets its first 3 sentences whatever N is, a
\* sentence of exactly 20 characters is discarded, an interior sentence
\* under 30 characters is never ranked).
SentenceSelection ==
    (Done /\ Val(res).summary.kind = "Sentences") =>
        LET text == Args.article.content
            N == Args.sentences_count
            picked == Val(res).summary.picked
            ranked == RankedInterior(KeptSentences)
        IN  /\ \A j \in 1..Len(picked) : picked[j].len >= 20
            /\ picked[1] = KeptSentences[1]
            /\ TextLen(text) <= 1000 => picked = Slice(KeptSentences, N)
            /\ (TextLen(text) > 1000 /\ N >= 2 /\ Len(KeptSentences) > N) =>
                  picked = <<KeptSentences[1]>>
                           \o [j \in 1..(N - 2) |-> ranked[j].sentence]
                           \o <<KeptSentences[Len(KeptSentences)]>>

\* ------------------------------------------------------- deliver_digest
\* config/settings.py
TOP_ARTICLES_IN_DIGEST == 6
MIN_IMPORTANCE_SCORE == 45

\* Longest second and third run of a list of articles handed to
\* deliver_digest.
MaxTail == 2

\* The scores of the articles handed over: none, below the minimum, the
\* minimum, above it.
DigestScores == {None, Some(40), Some(MIN_IMPORTANCE_SCORE), Some(90)}

\* A list of n1 articles of score x, n2 of score y and n3 of score z, with
\* publication dates rising or falling along the list.
DigestArticles(x, n1, y, n2, z, n3, rising) ==
    [j \in 1..(n1 + n2 + n3) |->
        [id |-> j,
         importance_score |-> IF j <= n1 THEN x ELSE IF j <= n1 + n2 THEN y ELSE z,
         published_date |-> IF rising THEN j ELSE n1 + n2 + n3 - j]]

\* any(a.importance_score is not None for a in list)
AnyScored(list) == \E j \in 1..Len(list) : list[j].importance_score # None

\* Variant: every scored article passes.
ImportantIfScored(a) == a.importance_score # None

\* `a.importance_score and a.importance_score >= MIN_IMPORTANCE_SCORE`
Important(a) ==
    /\ a.importance_score # None
    /\ Val(a.importance_score) # 0
    /\ Val(a.importance_score) >= MIN_IMPORTANCE_SCORE

\* The sort keys: `x.importance_score or 0`, `x.published_date`.
SortKey(a, key) ==
    IF key = "importance_score"
    THEN (IF a.importance_score = None THEN 0 ELSE Val(a.importance_score))
    ELSE a.published_date

\* sorted(list, key=..., reverse=True): highest key first, articles of
\* equal key in the order of the list.
RECURSIVE SortedReverse(_, _)
SortedReverse(list, key) ==
    IF Len(list) = 0 THEN << >>
    ELSE LET best == {k \in 1..Len(list) :
                        \A j \in 1..Len(list) : SortKey(list[j], key) <= SortKey(list[k], key)}
             k == CHOOSE k \in best : \A j \in best : k <= j
             rest == [j \in 1..(Len(list) - 1) |-> IF j < k THEN list[j] ELSE list[j + 1]]
         IN  <<list[k]>> \o SortedReverse(rest, key)

\* deliver_digest up to `top_articles`, the list printed and mailed.
deliver_digest(list) ==
    LET important_articles == IF AnyScored(list) THEN SelectSeq(list, Important) ELSE list
        limited == Slice(important_articles,
                         IF Len(important_articles) > TOP_ARTICLES_IN_DIGEST * 2
                         THEN TOP_ARTICLES_IN_DIGEST * 2 ELSE Len(important_articles))
        sorted_articles == IF AnyScored(limited)
                           THEN SortedReverse(limited, "importance_score")
                           ELSE SortedReverse(limited, "published_date")
    IN  Slice(sorted_articles, TOP_ARTICLES_IN_DIGEST)

\* A call of deliver_digest(articles, send_email); `mail` is what
\* EmailSender does when asked.
DigestInit ==
    /\ Idle
    /\ \E x \in DigestScores, y \in DigestScores, z \in DigestScores,
          n1 \in 0..(TOP_ARTICLES_IN_DIGEST * 2), n2 \in 0..MaxTail, n3 \in 0..MaxTail,
          rising \in BOOLEAN, send_email \in BOOLEAN, mail \in {"sent", "error"} :
          /\ send_email \/ mail = "sent"
          /\ op = Pending("deliver_digest",
                          [articles |-> DigestArticles(x, n1, y, n2, z, n3, rising),
                           send_email |-> send_email, mail |-> mail])
    /\ res = None

\* deliver_digest returns: the articles it printed, the articles it mailed,
\* and the list it was given as the call left it.
CallDeliverDigest ==
    Return("deliver_digest",
           [top_articles |-> deliver_digest(Args.articles),
            mailed |-> IF Args.send_email /\ Args.mail = "sent"
                       THEN deliver_digest(Args.articles) ELSE << >>,
            articles |-> Args.articles])

DigestSpec == DigestInit /\ [][CallDeliverDigest]_vars

\* The input articles whose score passes the minimum.
Passing == {j \in 1..Len(Args.articles) : /\ Args.articles[j].importance_score # None
                                          /\ Val(Args.articles[j].importance_score)
                                                >= MIN_IMPORTANCE_SCORE}
Delivered == {Val(res).top_articles[k].id : k \in 1..Len(Val(res).top_articles)}

\* C23: for a list of scored articles of any size and order, the articles
\* delivered are the TOP_ARTICLES_IN_DIGEST highest-scoring ones of those
\* that pass MIN_IMPORTANCE_SCORE: none that passes is left out for one of
\* lower score (violated: the list is cut to its first 12 passing articles
\* before it is sorted).
TopRanking ==
    (/\ Done
     /\ \A j \in 1..Len(Args.articles) : Args.articles[j].importance_score # None)
    => /\ Cardinality(Delivered) = Min(TOP_ARTICLES_IN_DIGEST, Cardinality(Passing))
       /\ Delivered \subseteq Passing
       /\ \A j \in Passing \ Delivered : \A k \in Delivered :
             Val(Args.articles[k].importance_score) >= Val(Args.articles[j].importance_score)

\* C24: when at least one input article has a score, the selected list has
\* at most TOP_ARTICLES_IN_DIGEST articles, in order of non-increasing score,
\* none of them without a score or below MIN_IMPORTANCE_SCORE, each of them
\* an article of the input as it was handed over; the input list is left as
\* it was.
DigestSelection ==
    (Done /\ AnyScored(Args.articles)) =>
        LET top_articles == Val(res).top_articles
        IN  /\ Len(top_articles) <= TOP_ARTICLES_IN_DIGEST
            /\ \A k \in 1..Len(top_articles) :
                  /\ top_articles[k].importance_score # None
                  /\ Val(top_articles[k].importance_score) >= MIN_IMPORTANCE_SCORE
                  /\ top_articles[k] = Args.articles[top_articles[k].id]
            /\ \A k \in 1..(Len(top_articles) - 1) :
                  Val(top_articles[k].importance_score)
                     >= Val(top_articles[k + 1].importance_score)
            /\ Cardinality(Delivered) = Len(top_articles)
            /\ Val(res).articles = Args.articles

\* C24 witness: from a list holding an article without a score and more
\* than six passing ones of two different scores, six were selected, the
\* first scored higher than the last.
DigestSelectionWitness ==
    /\ Done
    /\ Val(op).name = "deliver_digest"
    /\ \E j \in 1..Len(Args.articles) : Args.articles[j].importance_score = None
    /\ Cardinality(Passing) > TOP_ARTICLES_IN_DIGEST
    /\ Len(Val(res).top_articles) = TOP_ARTICLES_IN_DIGEST
    /\ Val(res).top_articles[1].importance_score = Some(90)
    /\ Val(res).top_articles[TOP_ARTICLES_IN_DIGEST].importance_score
          = Some(MIN_IMPORTANCE_SCORE)

\* ------------------------------- deduplication, relevance filters and job
\* Longest list of collected articles.
MaxCollected == 3

\* config/settings.py
RECENT_ARTICLES_DAYS == 5

\* Variant: the threshold itself does not count as similar.
similar_text_above(words1, words2) ==
    IF words1 = {} \/ words2 = {} THEN FALSE
    ELSE 5 * Cardinality(words1 \cap words2) > 4 * Cardinality(words1 \cup words2)

\* similar_text on the word sets of two texts, threshold 0.8:
\* len(intersection) / len(union) >= 0.8.
similar_text(words1, words2) ==
    IF words1 = {} \/ words2 = {} THEN FALSE
    ELSE 5 * Cardinality(words1 \cap words2) >= 4 * Cardinality(words1 \cup words2)

\* deduplicate_articles.  A title is a sequence of words and punctuation
\* marks; the words of normalize_text(title.lower()) are its words in lower
\* case, punctuation dropped; seen_titles holds them for every article kept
\* so far.
RECURSIVE deduplicate_articles(_)
deduplicate_articles(list) ==
    IF Len(list) = 0 THEN << >>
    ELSE LET normalized_title(a) ==
                 {Lower(a.title[j]) : j \in {j \in 1..Len(a.title) : a.title[j] # "!"}}
             article == list[Len(list)]
             unique_articles == deduplicate_articles(SubSeq(list, 1, Len(list) - 1))
             seen_titles == {normalized_title(unique_articles[j]) :
                                j \in 1..Len(unique_articles)}
         IN  IF \E seen \in seen_titles : similar_text(normalized_title(article), seen)
             THEN unique_articles
             ELSE Append(unique_articles, article)

\* filter_recent_articles: `not article.published_date` skips the article,
\* article_date >= now - days keeps it.  published_date is None or the
\* article's age in days.
filter_recent_articles(list) ==
    SelectSeq(list, LAMBDA article :
                       /\ article.published_date # None
                       /\ Val(article.published_date) <= RECENT_ARTICLES_DAYS)

\* filter_jvm_articles:
\* (primary_matches >= 1 or secondary_matches >= 3) and exclusion_matches < 2
filter_jvm_articles(list) ==
    SelectSeq(list, LAMBDA article :
                       /\ article.primary_matches >= 1 \/ article.secondary_matches >= 3
                       /\ article.exclusion_matches < 2)

\* collect_articles with testing_mode = True and ENABLE_WEB_CRAWLING = False:
\* at most one article of the RSS feeds (none when the fetcher raised), the
\* three filters, and the first recent article when no JVM article is left.
collect_articles(rss, fetch) ==
    LET all_articles == IF fetch = "ok" THEN Slice(rss, 1) ELSE << >>
        unique_articles == deduplicate_articles(all_articles)
        filtered_articles == filter_recent_articles(unique_articles)
        jvm_articles == filter_jvm_articles(filtered_articles)
    IN  IF Len(jvm_articles) = 0 /\ Len(filtered_articles) > 0
        THEN Slice(filtered_articles, 1)
        ELSE jvm_articles

\* A call of one of the three functions on a list of fresh articles, or a
\* run of job() in which the RSS fetcher returns such a list or raises.
\* An article has a title, an age in days (or no date), the numbers of
\* primary, secondary and excluded keywords in title and content, and the
\* place `id` it has in the list.
CollectInit ==
    /\ Idle
    /\ LET T == <<"TechCrunch", "Movie", "released", "today">>
           K(title, age, p, s, x) ==
               [title |-> title, published_date |-> age, primary_matches |-> p,
                secondary_matches |-> s, exclusion_matches |-> x]
           CollectedKinds ==
               { K(T, Some(0), 1, 0, 0),
                 K(<<"techcrunch", "movie", "released", "today", "!">>, Some(5), 0, 3, 1),
                 K(T \o <<"again">>, Some(6), 1, 0, 2),
                 K(T \o <<"again", "soon">>, Some(3), 0, 3, 0),
                 K(SubSeq(T, 1, 3), None, 0, 2, 0),
                 K(<< >>, Some(1), 2, 0, 0),
                 K(<<"!">>, Some(0), 1, 1, 1),
                 K(<<"Wholesale">>, Some(2), 1, 0, 2) }
       IN  \E n \in 0..MaxCollected :
           \E kinds \in [1..n -> CollectedKinds], feat \in {PlainFeat, GenericFeat} :
              LET list == [j \in 1..n |->
                              [id |-> j] @@ kinds[j] @@ Article(12, 6, 300, feat)]
              IN  \/ /\ feat = PlainFeat
                     /\ \E name \in {"deduplicate_articles", "filter_recent_articles",
                                     "filter_jvm_articles"} :
                           op = Pending(name, list)
                  \/ \E fetch \in {"ok", "error"} :
                        op = Pending("job", [rss |-> list, fetch |-> fetch])
    /\ res = None

\* The function returns: the list it built, and the list it was given as
\* the call left it.
CallFilter ==
    \E name \in {"deduplicate_articles", "filter_recent_articles", "filter_jvm_articles"} :
       Return(name, [result |-> CASE name = "deduplicate_articles" ->
                                       deduplicate_articles(Args)
                                  [] name = "filter_recent_articles" ->
                                       filter_recent_articles(Args)
                                  [] name = "filter_jvm_articles" ->
                                       filter_jvm_articles(Args),
                     articles |-> Args])

\* job: `articles = collect_articles()`, `if not articles: return`,
\* `articles = articles[:1]`.  `res` holds the locals of the run.
JobCollect ==
    /\ op # None /\ Val(op).name = "job" /\ res = None
    /\ LET collected == collect_articles(Args.rss, Args.fetch)
       IN  res' = Some([pc |-> IF Len(collected) = 0 THEN "done" ELSE "process",
                        stages |-> <<"collect_articles">>,
                        articles |-> Slice(collected, 1),
                        top_articles |-> << >>])
    /\ UNCHANGED <<op, pipeline_vars>>

\* job: `SimpleArticleProcessor().process_articles(articles)`; an exception
\* that leaves it ends the run in the except clause of job.
JobProcess ==
    /\ op # None /\ Val(op).name = "job" /\ res # None /\ Val(res).pc = "process"
    /\ \E o \in SplitOutcomes, fault \in BOOLEAN :
          res' = Some([pc |-> IF fault THEN "done" ELSE "deliver",
                       stages |-> Append(Val(res).stages,
                                         "SimpleArticleProcessor.process_articles"),
                       articles |-> IF fault THEN Val(res).articles
                                    ELSE [j \in 1..Len(Val(res).articles) |->
                                             SimpleRateOne(
                                                SimpleSummarizeOne(Val(res).articles[j], o), o)],
                       top_articles |-> << >>])
    /\ UNCHANGED <<op, pipeline_vars>>

\* job: `deliver_digest(processed_articles)`
JobDeliver ==
    /\ op # None /\ Val(op).name = "job" /\ res # None /\ Val(res).pc = "deliver"
    /\ res' = Some([pc |-> "done",
                    stages |-> Append(Val(res).stages, "deliver_digest"),
                    articles |-> Val(res).articles,
                    top_articles |-> deliver_digest(Val(res).articles)])
    /\ UNCHANGED <<op, pipeline_vars>>

CollectSpec ==
    CollectInit /\ [][CallFilter \/ JobCollect \/ JobProcess \/ JobDeliver]_vars

\* The words of an article's title, and two articles being duplicates: the
\* Jaccard similarity of their titles' word sets is defined and at least
\* 0.8.
TitleWords(a) == {Lower(a.title[j]) : j \in 1..Len(a.title)} \ {"!"}
Duplicates(a, b) ==
    /\ TitleWords(a) \cup TitleWords(b) # {}
    /\ 10 * Cardinality(TitleWords(a) \cap TitleWords(b))
          >= 8 * Cardinality(TitleWords(a) \cup TitleWords(b))

\* C25: each of deduplicate_articles, filter_recent_articles and
\* filter_jvm_articles returns a subsequence of its input, the articles as
\* they were handed over, and leaves the input list as it was; after
\* deduplicate_articles no two articles kept are duplicates, and every
\* article dropped is a duplicate of an article kept before it.
FiltersPure ==
    (Done /\ Val(op).name \in {"deduplicate_articles", "filter_recent_articles",
                               "filter_jvm_articles"}) =>
        LET out == Val(res).result
        IN  /\ Val(res).articles = Args
            /\ \A k \in 1..Len(out) : out[k] = Args[out[k].id]
            /\ \A k \in 1..(Len(out) - 1) : out[k].id < out[k + 1].id
            /\ Val(op).name = "deduplicate_articles" =>
                  /\ \A k \in 1..Len(out) : \A l \in 1..Len(out) :
                        k # l => ~Duplicates(out[k], out[l])
                  /\ \A j \in 1..Len(Args) :
                        (\A k \in 1..Len(out) : out[k].id # j) =>
                           \E k \in 1..Len(out) : /\ out[k].id < j
                                                  /\ Duplicates(out[k], Args[j])

\* C25 witness: deduplicate_articles dropped the second of three articles,
\* whose title shares 4 of 5 words with the first, and kept the third.
FiltersPureWitness ==
    /\ Done
    /\ Val(op).name = "deduplicate_articles"
    /\ Len(Args) = 3
    /\ Cardinality(TitleWords(Args[1])) = 4
    /\ Cardinality(TitleWords(Args[2])) = 5
    /\ Len(Val(res).result) = 2
    /\ Val(res).result[2].id = 3

\* C26: in a run of job, the articles handed to deliver_digest were
\* collected, passed deduplication and both filters, and were then processed
\* by the Adaptive Processor: the stages run in the order collect,
\* dedup/filter, Adaptive Processor, deliver_digest (violated: job calls the
\* Simple processor, and hands on the first recent article when none passed
\* the JVM filter).
PipelineOrder ==
    (/\ op # None /\ Val(op).name = "job" /\ res # None
     /\ Len(Val(res).stages) > 0
     /\ Val(res).stages[Len(Val(res).stages)] = "deliver_digest")
    => /\ Val(res).stages = <<"collect_articles",
                              "AdaptiveArticleProcessor.process_articles",
                              "deliver_digest">>
       /\ filter_jvm_articles(filter_recent_articles(Val(res).articles))
             = Val(res).articles

====
